---- MODULE Spec2Model ----
(***************************************************************************)
(* Model of the knowledge indexer of xlmcp (tools/rag/indexer.py and       *)
(* tools/rag/storage.py): the tracking file, the per-root Milvus           *)
(* collection, change detection and the index_directory pass, which is     *)
(* split at its calls to the filesystem, the embedding function and the    *)
(* vector store so that passes of several callers can interleave.          *)
(* The search side (tools/rag/searcher.py, server.py): search_documents    *)
(* with its auto-refresh pass, get_all_tags, get_metadata_fields,          *)
(* drop_index and the aggregate knowledge_search over the registry.        *)
(***************************************************************************)
EXTENDS Integers, Sequences, FiniteSets, TLC

(* ------------------------------ bounds --------------------------------- *)
\* The last time of a filesystem event (a write, a removal); time starts at 1
\* and every event advances it.
MaxClock == 2
\* Chunks per embedding call: 1000 in the code (indexer.py:382), scaled down
\* so that a pass of the model needs more than one batch.
batch_size == 2

(* ------------------------- program constants --------------------------- *)
\* indexer.py:362, chunks shorter than this (stripped) are dropped
MinChunkChars == 50
\* config.py:89, RAG_MAX_FILE_SIZE_MB
max_file_size_mb == 10

Tasks == {1, 2}

(* ------------------------------ paths ---------------------------------- *)
\* A directory is the sequence of its components below "/", a component a
\* sequence of characters.
RootA == << <<"u">>, <<"d">>, <<"k", "b">> >>
RootB == << <<"v">>, <<"d">>, <<"k", "b">> >>
RootC == << <<"u">>, <<"d">>, <<"K", "_", "b">> >>
\* A directory outside the allowed directories
RootD == << <<"w">>, <<"d">> >>
RootPaths == {RootA, RootB, RootC, RootD}

AlnumLower == {"u", "v", "w", "d", "k", "b"}
AlnumUpper == {"K"}

IsAlnum(ch) == ch \in AlnumLower \cup AlnumUpper

Lower(ch) == IF ch = "K" THEN "k" ELSE ch

\* Path(dir).parts: the anchor "/" is the first part of an absolute path
Parts(dir) == << <<"/">> >> \o dir

\* "-".join(name_parts)
RECURSIVE JoinHyphen(_)
JoinHyphen(ps) ==
    IF Len(ps) = 0 THEN <<>>
    ELSE IF Len(ps) = 1 THEN ps[1]
    ELSE ps[1] \o <<"-">> \o JoinHyphen(Tail(ps))

\* re.sub(r"[^a-zA-Z0-9]+", "-", name): each maximal run of other characters
\* becomes one hyphen
RECURSIVE SubNonAlnum(_, _)
SubNonAlnum(s, inRun) ==
    IF Len(s) = 0 THEN <<>>
    ELSE IF IsAlnum(s[1]) THEN <<s[1]>> \o SubNonAlnum(Tail(s), FALSE)
    ELSE IF inRun THEN SubNonAlnum(Tail(s), TRUE)
    ELSE <<"-">> \o SubNonAlnum(Tail(s), TRUE)

\* name.strip("-")
RECURSIVE LStrip(_)
LStrip(s) == IF Len(s) > 0 /\ s[1] = "-" THEN LStrip(Tail(s)) ELSE s

RECURSIVE RStrip(_)
RStrip(s) ==
    IF Len(s) > 0 /\ s[Len(s)] = "-" THEN RStrip(SubSeq(s, 1, Len(s) - 1)) ELSE s

LowerSeq(s) == [i \in 1..Len(s) |-> Lower(s[i])]

LastTwo(ps) == IF Len(ps) >= 2 THEN SubSeq(ps, Len(ps) - 1, Len(ps)) ELSE ps

sanitize_directory_name(dir) ==
    LowerSeq(RStrip(LStrip(SubNonAlnum(JoinHyphen(LastTwo(Parts(dir))), FALSE))))

get_collection_name(dir) ==
    LET s == sanitize_directory_name(dir)
    IN  <<"knowledge_">> \o [i \in 1..Len(s) |-> IF s[i] = "-" THEN "_" ELSE s[i]]

\* config.rag.cache_dir / sanitized; milvus.db and tracking.json live in it
get_cache_directory(dir) == sanitize_directory_name(dir)

get_tracking_file_path(dir) == <<get_cache_directory(dir), "tracking.json">>

CacheDirs == {get_cache_directory(r) : r \in RootPaths}

\* config.jupyter.allowed_dirs
allowed_dirs == { << <<"u">> >>, << <<"v">> >> }

\* path.relative_to(allowed) does not raise: allowed is a prefix of the path
relative_to(dir, allowed) ==
    /\ Len(allowed) <= Len(dir)
    /\ SubSeq(dir, 1, Len(allowed)) = allowed

\* config.validate_path: TRUE when the path is returned, FALSE when
\* PermissionError is raised
validate_path(dir) == \E allowed \in allowed_dirs : relative_to(dir, allowed)

(* ------------------------------ files ---------------------------------- *)
\* A file name is <<stem, extension>>; no name here is hidden (starts with ".").
FileNames == {<<"a", "md">>, <<"b", "py">>}

\* FileType.from_extension
from_extension(ext) ==
    CASE ext = "md" -> "md"
      [] ext = "py" -> "py"
      [] ext = "pyx" -> "py"
      [] ext = "ipynb" -> "ipynb"
      [] OTHER -> "none"

\* What a file holds: the lengths of the stripped texts of the chunks the
\* splitter cuts it into, and its size in MB.
Contents ==
    { [id |-> "long",  chunks |-> <<50, 60>>, mb |-> 1],
      [id |-> "short", chunks |-> <<49>>,     mb |-> 1],
      [id |-> "big",   chunks |-> <<70>>,     mb |-> 11] }

NoContent == [id |-> "none", chunks |-> <<>>, mb |-> 0]

NoFile == [present |-> FALSE, content |-> NoContent, mtime |-> 0]

FilePath(dir, name) == [root |-> dir, name |-> name]

\* hashlib.md5(bytes).hexdigest(): a fingerprint of the bytes
md5(content) == <<"md5", content.id>>

(* ------------------------- text and hashtags --------------------------- *)
\* A text is the sequence of its characters. Backtick is the grave accent
\* (code point 96).
Backtick == "backtick"

\* The alphabet, in code-point order
Ascii ==
    <<" ", "\"", "#", "'", ",", "-", "/", "0", "1", "2", "3", "4", "5", "6",
      "7", "8", "9", "<", "=", ">", "F", "H", "S", "[", "]", "_", Backtick,
      "a", "b", "c", "d", "e", "f", "g", "h", "i", "j", "k", "l", "m", "n",
      "o", "p", "q", "r", "s", "t", "u", "v", "w", "x", "y", "z", "{", "}">>

\* ord(ch)
Ord(ch) == CHOOSE i \in DOMAIN Ascii : Ascii[i] = ch

Digits == {"0", "1", "2", "3", "4", "5", "6", "7", "8", "9"}
UpperLetters == {"F", "H", "S"}
LowerLetters == {Ascii[i] : i \in Ord("a")..Ord("z")}
Letters == LowerLetters \cup UpperLetters
\* [a-fA-F0-9]
HexDigits == Digits \cup {"a", "b", "c", "d", "e", "f", "F"}
\* [a-zA-Z0-9_-]
TagChars == Letters \cup Digits \cup {"_", "-"}
\* \w
WordChars == Letters \cup Digits \cup {"_"}

\* str.lower on one character
LowerCh(ch) ==
    CASE ch = "F" -> "f" [] ch = "H" -> "h" [] ch = "S" -> "s" [] OTHER -> ch

\* s < t for strings: by code points, a proper prefix first
RECURSIVE StrLess(_, _)
StrLess(s, t) ==
    IF t = <<>> THEN FALSE
    ELSE IF s = <<>> THEN TRUE
    ELSE IF s[1] = t[1] THEN StrLess(Tail(s), Tail(t))
    ELSE Ord(s[1]) < Ord(t[1])

\* sorted(S) for a set of strings
RECURSIVE SortStrings(_)
SortStrings(S) ==
    IF S = {} THEN <<>>
    ELSE LET m == CHOOSE x \in S : \A y \in S \ {x} : StrLess(x, y)
         IN  <<m>> \o SortStrings(S \ {m})

\* The literal lit stands in s at position i (ignoring case when fold)
StartsAt(s, i, lit, fold) ==
    /\ i + Len(lit) - 1 <= Len(s)
    /\ \A k \in 1..Len(lit) :
            IF fold THEN LowerCh(s[i + k - 1]) = lit[k] ELSE s[i + k - 1] = lit[k]

\* The first position at or after i where lit stands, 0 when there is none
Find(s, i, lit, fold) ==
    LET at == {j \in i..Len(s) : StartsAt(s, j, lit, fold)}
    IN  IF at = {} THEN 0 ELSE CHOOSE j \in at : \A k \in at : j <= k

\* re.sub(pattern, "", s): MatchEnd(s, i) is the last position of the match
\* of the pattern that starts at i, 0 when none starts there; matches are
\* taken leftmost first and do not overlap
ReSubEmpty(s, MatchEnd(_, _)) ==
    LET rest[i \in 1..(Len(s) + 1)] ==
            IF i > Len(s) THEN <<>>
            ELSE IF MatchEnd(s, i) > 0
                 THEN IF MatchEnd(s, i) >= Len(s) THEN <<>> ELSE rest[MatchEnd(s, i) + 1]
                 ELSE <<s[i]>> \o rest[i + 1]
    IN  rest[1]

\* A fenced block: three backticks, then lazily anything ([\s\S]*?), then
\* three backticks
FencedCode(s, i) ==
    LET fence == <<Backtick, Backtick, Backtick>>
        close == Find(s, i + 3, fence, FALSE)
    IN  IF StartsAt(s, i, fence, FALSE) /\ close > 0 THEN close + 2 ELSE 0

\* Inline code: a backtick, any characters but backticks, a backtick
InlineCode(s, i) ==
    IF s[i] = Backtick THEN Find(s, i + 1, <<Backtick>>, FALSE) ELSE 0

\* <[^>]+>
MarkupTag(s, i) ==
    LET close == Find(s, i + 1, <<">">>, FALSE)
    IN  IF s[i] = "<" /\ close > i + 1 THEN close ELSE 0

\* <style[\s\S]*?</style>, ignoring case
StyleBlock(s, i) ==
    LET close == Find(s, i + 6, <<"<", "/", "s", "t", "y", "l", "e", ">">>, TRUE)
    IN  IF StartsAt(s, i, <<"<", "s", "t", "y", "l", "e">>, TRUE) /\ close > 0
        THEN close + 7 ELSE 0

\* The first position at or after i that holds no blank
SkipBlanks(s, i) ==
    LET at == {j \in i..(Len(s) + 1) : j > Len(s) \/ s[j] # " "}
    IN  CHOOSE j \in at : \A k \in at : j <= k

\* \bstyle\s*=\s*['"][^'"]*['"], ignoring case
StyleAttribute(s, i) ==
    LET quotes == {"'", "\""}
        eq == SkipBlanks(s, i + 5)
        open == SkipBlanks(s, eq + 1)
        closes == {j \in (open + 1)..Len(s) : s[j] \in quotes}
    IN  IF /\ StartsAt(s, i, <<"s", "t", "y", "l", "e">>, TRUE)
           /\ (i = 1 \/ s[i - 1] \notin WordChars)
           /\ eq <= Len(s) /\ s[eq] = "="
           /\ open <= Len(s) /\ s[open] \in quotes
           /\ closes # {}
        THEN CHOOSE j \in closes : \A k \in closes : j <= k
        ELSE 0

\* The last position of the match of [a-zA-Z0-9_-]* that starts at i
TagEnd(s, i) ==
    LET stops == {j \in i..(Len(s) + 1) : j > Len(s) \/ s[j] \notin TagChars}
    IN  (CHOOSE j \in stops : \A k \in stops : j <= k) - 1

\* re.findall(r"#[a-zA-Z][a-zA-Z0-9_-]*", s), as a set
FindHashtags(s) ==
    LET found[i \in 1..(Len(s) + 1)] ==
            IF i >= Len(s) THEN {}
            ELSE IF s[i] = "#" /\ s[i + 1] \in Letters
                 THEN {SubSeq(s, i, TagEnd(s, i + 1))} \cup found[TagEnd(s, i + 1) + 1]
                 ELSE found[i + 1]
    IN  found[1]

\* tag[1:] if tag.startswith('#') else tag
without_hash(tag) == IF Len(tag) > 0 /\ tag[1] = "#" THEN Tail(tag) ELSE tag

is_hex_color(tag) ==
    LET rest == without_hash(tag)
    IN  /\ Len(rest) > 0
        /\ \A k \in 1..Len(rest) : rest[k] \in HexDigits
        /\ Len(rest) \in {3, 4, 6, 8}

\* ^h\d+$, ignoring case
is_heading_marker(tag) ==
    LET rest == without_hash(tag)
    IN  /\ Len(rest) >= 2
        /\ LowerCh(rest[1]) = "h"
        /\ \A k \in 2..Len(rest) : rest[k] \in Digits

is_valid_tag(tag) ==
    /\ ~(Len(tag) <= 2)
    /\ ~is_hex_color(tag)
    /\ ~is_heading_marker(tag)

\* metadata.extract_inline_hashtags: the set of the tags it returns
extract_inline_hashtags(text) ==
    LET t1 == ReSubEmpty(text, FencedCode)
        t2 == ReSubEmpty(t1, InlineCode)
        t3 == ReSubEmpty(t2, MarkupTag)
        t4 == ReSubEmpty(t3, StyleBlock)
        t5 == ReSubEmpty(t4, StyleAttribute)
    IN  {tag \in FindHashtags(t5) : is_valid_tag(tag)}

\* Sample texts, character by character
\* no character that the tag extraction looks at
TextPlain ==
    <<>>
\* #bt #qx <font color='#ff0000'>x</font> #h1 #ab
TextSpecExample ==
    <<"#", "b", "t", " ", "#", "q", "x", " ", "<", "f", "o", "n", "t",
      " ", "c", "o", "l", "o", "r", "=", "'", "#", "f", "f", "0", "0",
      "0", "0", "'", ">", "x", "<", "/", "f", "o", "n", "t", ">", " ",
      "#", "h", "1", " ", "#", "a", "b">>
\* <style>#hdr{}</style> #bt
TextStyleBlock ==
    <<"<", "s", "t", "y", "l", "e", ">", "#", "h", "d", "r", "{", "}",
      "<", "/", "s", "t", "y", "l", "e", ">", " ", "#", "b", "t">>
\* BACKTICK#cdBACKTICK #bt (inline code)
TextInlineCode ==
    <<Backtick, "#", "c", "d", Backtick, " ", "#", "b", "t">>
\* A fenced block holding #fk, then #rt
TextFencedCode ==
    <<Backtick, Backtick, Backtick, "#", "f", "k", Backtick, Backtick, Backtick, " ", "#", "r", "t">>
\* <a t="x>#tg">
TextQuotedGt ==
    <<"<", "a", " ", "t", "=", "\"", "x", ">", "#", "t", "g", "\"", ">">>
\* style='#st' #ok
TextStyleAttr ==
    <<"s", "t", "y", "l", "e", "=", "'", "#", "s", "t", "'", " ", "#",
      "o", "k">>
\* #abc #abcg #beef #h12 #h1x #Fade
TextHex ==
    <<"#", "a", "b", "c", " ", "#", "a", "b", "c", "g", " ", "#", "b",
      "e", "e", "f", " ", "#", "h", "1", "2", " ", "#", "h", "1", "x",
      " ", "#", "F", "a", "d", "e">>
\* #btx
TextBtx ==
    <<"#", "b", "t", "x">>
Texts ==
    {TextPlain, TextSpecExample, TextStyleBlock, TextInlineCode,
     TextFencedCode, TextQuotedGt, TextStyleAttr, TextHex, TextBtx}

(* --------------------------- file metadata ----------------------------- *)
\* None
None == [type |-> "None"]

\* A YAML or JSON value that is a string, an integer, a float
StrVal(chars) == [type |-> "str", v |-> chars]
IntVal(n) == [type |-> "int", v |-> n]
FloatVal(n) == [type |-> "float", v |-> n]

\* models.DocumentMetadata(file_type=...): file_type "none" is None, tags
\* defaults to the empty list,
\* every other field to None
DocumentMetadata(file_type) ==
    [file_type |-> file_type, tags |-> <<>>, type_field |-> None, sharpe |-> None,
     module_name |-> None, cell_count |-> None]

\* A call that returned a metadata record, and one that raised
Extracted(m) == [status |-> "returned", exception |-> "none", metadata |-> m]
ExtractRaised(e) == [status |-> "raised", exception |-> e, metadata |-> DocumentMetadata("none")]

\* str.strip() of blanks
RECURSIVE Strip(_)
Strip(s) ==
    IF Len(s) > 0 /\ s[1] = " " THEN Strip(Tail(s))
    ELSE IF Len(s) > 0 /\ s[Len(s)] = " " THEN Strip(SubSeq(s, 1, Len(s) - 1))
    ELSE s

\* s.split(",")
RECURSIVE SplitComma(_)
SplitComma(s) ==
    LET c == Find(s, 1, <<",">>, FALSE)
    IN  IF c = 0 THEN <<s>>
        ELSE <<SubSeq(s, 1, c - 1)>> \o SplitComma(SubSeq(s, c + 1, Len(s)))

\* The front matter of a markdown file: the value under "tags" (absent, a
\* list, a string, or a value of another type), under "Type" and under
\* "sharpe"
NoFrontMatter == [tags |-> [kind |-> "absent"], Type |-> None, sharpe |-> None]

\* metadata.parse_frontmatter: the pair (fm_data, content); a file that
\* cannot be read gives the empty pair
parse_frontmatter(f) ==
    IF f.read = "ok" THEN <<f.front, f.body>> ELSE <<NoFrontMatter, <<>> >>

\* metadata.py:170-175: fm_tags as a list
fm_tags_list(value) ==
    CASE value.kind = "list" -> value.items
      [] value.kind = "str" ->
            LET parts == SplitComma(value.text)
            IN  [i \in 1..Len(parts) |-> StrVal(Strip(parts[i]))]
      [] OTHER -> <<>>

\* metadata.py:178-184 on one tag
normalize_fm_tag(tag) ==
    LET t == Strip(tag)
    IN  IF t # <<>> /\ t[1] # "#" THEN <<"#">> \o t ELSE t

\* metadata.py:186-205: the front-matter tags that pass the filter
filtered_fm_tags(fm_tags) ==
    {t \in {normalize_fm_tag(fm_tags[i].v) : i \in 1..Len(fm_tags)} :
        t # <<>> /\ is_valid_tag(t)}

\* metadata.parse_float_safe: float(value), None when it raises (no string
\* here is a numeral)
parse_float_safe(value) == IF value.type \in {"int", "float"} THEN FloatVal(value.v) ELSE None

\* metadata._extract_markdown_metadata; tag.strip() raises on a tag that is
\* not a string
extract_markdown_metadata(f) ==
    LET fm_data == parse_frontmatter(f)[1]
        content == parse_frontmatter(f)[2]
        inline_tags == extract_inline_hashtags(content)
        fm_tags == fm_tags_list(fm_data.tags)
    IN  IF \E i \in 1..Len(fm_tags) : fm_tags[i].type # "str"
        THEN ExtractRaised("AttributeError")
        ELSE Extracted([DocumentMetadata("md") EXCEPT
                !.tags = SortStrings(filtered_fm_tags(fm_tags) \cup inline_tags),
                !.type_field = fm_data.Type,
                !.sharpe = parse_float_safe(fm_data.sharpe)])

\* parsers.PythonParser.extract_metadata: open and read (FileNotFoundError
\* and UnicodeDecodeError are caught), ast.parse (SyntaxError is caught),
\* the hashtags of the module docstring
python_extract_metadata(f) ==
    IF f.read \in {"FileNotFoundError", "UnicodeDecodeError"}
    THEN Extracted(DocumentMetadata("py"))
    ELSE IF f.read # "ok" THEN ExtractRaised(f.read)
    ELSE IF f.ast = "SyntaxError" THEN Extracted(DocumentMetadata("py"))
    ELSE Extracted([DocumentMetadata("py") EXCEPT
                !.module_name = StrVal(f.stem),
                !.tags = SortStrings(FindHashtags(f.docstring))])

\* parsers.JupyterParser.extract_metadata: open and json.load
\* (FileNotFoundError and JSONDecodeError are caught), then nb.get, which a
\* document that is not a JSON object does not have
jupyter_extract_metadata(f) ==
    IF f.read = "FileNotFoundError" THEN Extracted(DocumentMetadata("ipynb"))
    ELSE IF f.read # "ok" THEN ExtractRaised(f.read)
    ELSE IF f.json = "JSONDecodeError" THEN Extracted(DocumentMetadata("ipynb"))
    ELSE IF f.json # "object" THEN ExtractRaised("AttributeError")
    ELSE LET cells == f.cells
             tags == UNION {extract_inline_hashtags(cells[i].source) :
                                i \in {j \in 1..Len(cells) : cells[j].cell_type = "markdown"}}
         IN  Extracted([DocumentMetadata("ipynb") EXCEPT
                !.cell_count = IntVal(Len(cells)),
                !.tags = SortStrings(tags)])

\* metadata.extract_metadata of the file f whose name ends in ext
extract_metadata(ext, f) ==
    CASE from_extension(ext) = "py" -> python_extract_metadata(f)
      [] from_extension(ext) = "ipynb" -> jupyter_extract_metadata(f)
      [] from_extension(ext) = "md" -> extract_markdown_metadata(f)
      [] OTHER -> Extracted(DocumentMetadata("none"))

(* --------------------- what the parsers see in a file ------------------ *)
\* Contents with front matter and hashtags: tags [bt] with Type and sharpe;
\* the hashtag #btx in the body; tags [bt, 2024]
TaggedContents ==
    { [id |-> "bt",    chunks |-> <<60>>, mb |-> 1],
      [id |-> "btx",   chunks |-> <<60>>, mb |-> 1],
      [id |-> "badfm", chunks |-> <<60>>, mb |-> 1] }

\* A file that open() refuses with PermissionError (its mode lets nobody read)
DeniedContent == [id |-> "denied", chunks |-> <<60>>, mb |-> 1]

AllContents == Contents \cup TaggedContents \cup {DeniedContent}

ContentById(id) == CHOOSE c \in AllContents : c.id = id

\* The content read as markdown: front matter and body (of the body, the
\* characters that matter to the tag extraction)
MarkdownView(c) ==
    CASE c.id = "bt" ->
            [read |-> "ok",
             front |-> [tags |-> [kind |-> "list", items |-> <<StrVal(<<"b", "t">>)>>],
                        Type |-> StrVal(<<"F">>), sharpe |-> FloatVal(2)],
             body |-> TextPlain]
      [] c.id = "btx" -> [read |-> "ok", front |-> NoFrontMatter, body |-> TextBtx]
      [] c.id = "badfm" ->
            [read |-> "ok",
             front |-> [tags |-> [kind |-> "list",
                                  items |-> <<StrVal(<<"b", "t">>), IntVal(2024)>>],
                        Type |-> None, sharpe |-> None],
             body |-> TextPlain]
      [] c.id = "denied" -> [read |-> "PermissionError", front |-> NoFrontMatter, body |-> TextPlain]
      [] OTHER -> [read |-> "ok", front |-> NoFrontMatter, body |-> TextPlain]

\* The content read as Python source: the tagged contents are no Python
PythonView(c, stem) ==
    [read |-> IF c = DeniedContent THEN "PermissionError" ELSE "ok",
     ast |-> IF c \in Contents THEN "module" ELSE "SyntaxError",
     docstring |-> TextPlain, stem |-> stem]

\* The file of this name and content, as extract_metadata meets it
FileView(name, c) ==
    IF from_extension(name[2]) = "py" THEN PythonView(c, <<name[1]>>) ELSE MarkdownView(c)

\* indexer.py:328-334 and 404-407: the metadata of a file of the pass, the
\* empty metadata when extract_metadata raised
file_metadata(name, c) ==
    LET r == extract_metadata(name[2], FileView(name, c))
    IN  IF r.status = "raised" THEN DocumentMetadata("none") ELSE r.metadata

(* ------------------------------ filters -------------------------------- *)
\* The pieces of text the filter builders put together, and the names of
\* the fields of an entity
AndText == <<" ", "a", "n", "d", " ">>
LikeOpen == <<"t", "a", "g", "s", "_", "s", "t", "r", " ", "l", "i", "k", "e", " ", "'", "%">>
LikeClose == <<"%", "'">>
PointZero == <<".", "0">>
TrueText == <<"T", "r", "u", "e">>
FalseText == <<"F", "a", "l", "s", "e">>
OpGt == <<" ", ">", " ">>
OpLt == <<" ", "<", " ">>
OpGe == <<" ", ">", "=", " ">>
OpLe == <<" ", "<", "=", " ">>
OpNe == <<" ", "!", "=", " ">>
OpEq == <<" ", "=", "=", " ">>
TypeKey == <<"t", "y", "p", "e">>
TypeField == <<"t", "y", "p", "e", "_", "f", "i", "e", "l", "d">>
CommaBlank == <<",", " ">>
SharpeField == <<"s", "h", "a", "r", "p", "e">>
CagrField == <<"c", "a", "g", "r">>
DrawdownField == <<"d", "r", "a", "w", "d", "o", "w", "n">>
StrategyField == <<"s", "t", "r", "a", "t", "e", "g", "y">>
PathField == <<"p", "a", "t", "h">>
FilenameField == <<"f", "i", "l", "e", "n", "a", "m", "e">>
TextField == <<"t", "e", "x", "t">>

\* sep.join(parts) for texts
RECURSIVE Join(_, _)
Join(sep, parts) ==
    IF parts = <<>> THEN <<>>
    ELSE IF Len(parts) = 1 THEN parts[1]
    ELSE parts[1] \o sep \o Join(sep, Tail(parts))

\* part in text
Contains(text, part) == Find(text, 1, part, FALSE) > 0 \/ part = <<>>

\* searcher.build_tag_filter
build_tag_filter(tags) ==
    Join(AndText, [i \in 1..Len(tags) |-> LikeOpen \o tags[i] \o LikeClose])

\* True, and a value that is neither None, a string nor a number (a list)
TrueVal == [type |-> "bool", v |-> TRUE]
ListVal == [type |-> "list", v |-> <<>>]

\* str(n) for a number below ten
DigitText(n) == <<Ascii[Ord("0") + n]>>

\* f"{value}" for an int, a float, a bool
FormatValue(value) ==
    CASE value.type = "int" -> DigitText(value.v)
      [] value.type = "float" -> DigitText(value.v) \o PointZero
      [] value.type = "bool" -> IF value.v THEN TrueText ELSE FalseText

\* str.lower() for the keys used here
LowerText(s) ==
    [i \in 1..Len(s) |->
        CASE s[i] = "T" -> "t" [] s[i] = "Y" -> "y" [] s[i] = "P" -> "p" [] s[i] = "E" -> "e"
          [] OTHER -> LowerCh(s[i])]

\* The operators a key is searched for (searcher.py:52)
KeyOperators == {OpGt, OpLt, OpGe, OpLe, OpNe}

\* searcher.py:50-65: the conditions of the entries, in the order of the map
\* (a sequence of entries, each a key and a value)
RECURSIVE metadata_conditions(_)
metadata_conditions(filters) ==
    IF filters = <<>> THEN <<>>
    ELSE LET key == filters[1].key
             value == filters[1].value
             field_name == IF LowerText(key) = TypeKey THEN TypeField ELSE key
             rest == metadata_conditions(Tail(filters))
         IN  IF \E op \in KeyOperators : Contains(key, op) THEN <<key>> \o rest
             ELSE IF value = None THEN rest
             ELSE IF value.type = "str"
                  THEN <<field_name \o OpEq \o <<"\"">> \o value.v \o <<"\"">> >> \o rest
             ELSE IF value.type \in {"int", "float", "bool"}
                  THEN <<field_name \o OpEq \o FormatValue(value)>> \o rest
             ELSE rest

\* searcher.build_metadata_filter
build_metadata_filter(filters) == Join(AndText, metadata_conditions(filters))

\* searcher.combine_filters
combine_filters(tag_filter, metadata_filter) ==
    LET tf == IF tag_filter # <<>> THEN << <<"(">> \o tag_filter \o <<")">> >> ELSE <<>>
        mf == IF metadata_filter # <<>> THEN << <<"(">> \o metadata_filter \o <<")">> >> ELSE <<>>
    IN  Join(AndText, tf \o mf)

\* searcher.py:140-145: the filter search_documents hands to client.search
combined_filter(tags, filters) ==
    combine_filters(build_tag_filter(tags), build_metadata_filter(filters))

(* ----------------- the store's reading of a filter --------------------- *)
\* json.dumps(tags) for a list of strings
json_dumps(tags) ==
    <<"[">> \o Join(CommaBlank, [i \in 1..Len(tags) |-> <<"\"">> \o tags[i] \o <<"\"">>]) \o <<"]">>

\* text.split(sep)
RECURSIVE SplitOn(_, _)
SplitOn(text, sep) ==
    LET c == Find(text, 1, sep, FALSE)
    IN  IF c = 0 THEN <<text>>
        ELSE <<SubSeq(text, 1, c - 1)>> \o SplitOn(SubSeq(text, c + Len(sep), Len(text)), sep)

\* The conditions of a filter expression of the forms built above: the
\* parentheses dropped, the text split at its "and"s
FilterConditions(expr) ==
    SplitOn(SelectSeq(expr, LAMBDA ch : ch \notin {"(", ")"}), AndText)

\* The scalar fields of the collection that the entities carry, and the
\* comparison operators of the store's expression language
NumericFields == {SharpeField, CagrField, DrawdownField}
StringFields == {TypeField, StrategyField, PathField, FilenameField, TextField}
StoreOperators == <<OpEq, OpNe, OpGe, OpLe, OpGt, OpLt>>

\* A condition read as field, operator, literal: the first operator of
\* StoreOperators that occurs in it splits it; op 0 when none occurs
ParseCondition(cond) ==
    LET ops == {k \in 1..Len(StoreOperators) : Contains(cond, StoreOperators[k])}
        k == CHOOSE x \in ops : \A y \in ops : x <= y
        at == Find(cond, 1, StoreOperators[k], FALSE)
    IN  IF ops = {} THEN [op |-> 0, field |-> cond, literal |-> <<>>]
        ELSE [op |-> k, field |-> SubSeq(cond, 1, at - 1),
              literal |-> SubSeq(cond, at + Len(StoreOperators[k]), Len(cond))]

IsNumeral(text) == text # <<>> /\ \A i \in 1..Len(text) : text[i] \in Digits
IsQuoted(text) == Len(text) >= 2 /\ text[1] = "\"" /\ text[Len(text)] = "\""
IsLike(cond) ==
    /\ StartsAt(cond, 1, LikeOpen, FALSE)
    /\ Len(cond) >= Len(LikeOpen) + 2
    /\ SubSeq(cond, Len(cond) - 1, Len(cond)) = LikeClose

\* The store accepts a condition: a like on tags_str, a numeric field
\* compared with a numeral, a string field tested against a quoted string
StoreAccepts(cond) ==
    LET c == ParseCondition(cond)
    IN  \/ IsLike(cond)
        \/ c.op > 0 /\ c.field \in NumericFields /\ IsNumeral(c.literal)
        \/ c.op \in {1, 2} /\ c.field \in StringFields /\ IsQuoted(c.literal)

\* The store accepts a filter expression: each of its conditions
FilterAccepted(expr) ==
    expr = <<>> \/ \A i \in 1..Len(FilterConditions(expr)) : StoreAccepts(FilterConditions(expr)[i])

\* The number a numeral of one digit denotes
NumeralValue(text) == Ord(text[1]) - Ord("0")

Compare(a, k, b) ==
    CASE k = 1 -> a = b [] k = 2 -> a # b [] k = 3 -> a >= b [] k = 4 -> a <= b
      [] k = 5 -> a > b [] k = 6 -> a < b

\* An entity satisfies an accepted condition; a field that is None satisfies
\* no comparison
Satisfies(e, cond) ==
    LET c == ParseCondition(cond)
        like == SubSeq(cond, Len(LikeOpen) + 1, Len(cond) - 2)
    IN  IF IsLike(cond) THEN Contains(e.tags_str, like)
        ELSE IF c.field = SharpeField
             THEN e.sharpe # None /\ Compare(e.sharpe.v, c.op, NumeralValue(c.literal))
        ELSE IF c.field = TypeField
             THEN e.type_field # None
                    /\ Compare(e.type_field.v, c.op, SubSeq(c.literal, 2, Len(c.literal) - 1))
        ELSE FALSE

\* The entities of a collection that a filter expression lets through
Matches(e, expr) ==
    expr = <<>> \/ \A i \in 1..Len(FilterConditions(expr)) : Satisfies(e, FilterConditions(expr)[i])

VARIABLES
    roots,      \* the directories the callers index in this behaviour
    serial,     \* TRUE: one caller at a time; FALSE: callers in several processes
    clock,      \* time.time()
    disk,       \* disk[dir][name]: the file, or NoFile
    tracking,   \* tracking[cacheDir]: tracking.json of that cache directory
    store,      \* store[cacheDir]: the collection in that directory's milvus.db
    task,       \* task[t]: the index_directory call of caller t
    lastPass,   \* lastPass[dir]: history of dir, kept to state properties: whether
                \* a pass has finished (ran) and how (status), the files written
                \* or removed since (dirty), and whether so far every pass
                \* succeeded and no file was removed (clean)
    knowledges, \* the registry ~/.aix/knowledges.yaml: a sequence of knowledge
                \* bases, each a name and its paths
    call,       \* the last call of search_documents, get_all_tags,
                \* get_metadata_fields or drop_index: its arguments, its
                \* position and its result
    agg,        \* the last aggregate knowledge_search (no directory given)
    applied     \* a function of the program applied to one sample input: its
                \* name, its arguments and what it returned

vars == <<roots, serial, clock, disk, tracking, store, task, lastPass,
          knowledges, call, agg, applied>>


(* --------------------------- storage layer ----------------------------- *)
EmptyMap == [p \in {} |-> <<>>]

\* What tracking.json holds: "record", the JSON object save_tracking_file
\* dumps; "truncated", an empty file or the head of a dump; "notjson", bytes
\* that are no JSON; "array", JSON that is no object (a list, a number, null)
TrackingTexts == {"record", "truncated", "notjson", "array"}

NoTracking == [exists |-> FALSE, text |-> "record", last_checked |-> 0, files |-> EmptyMap]

NoCollection == [exists |-> FALSE, ents |-> EmptyMap]

\* storage.load_tracking_file raises: json.load gives a value that is no dict,
\* and `"last_checked" not in data` or `data["last_checked"] = 0` raises
\* TypeError, which the except clause (JSONDecodeError, PermissionError) lets
\* through
load_tracking_file_raises(dir) ==
    LET f == tracking[get_cache_directory(dir)]
    IN  f.exists /\ f.text = "array"

\* storage.load_tracking_file, when it returns: the stored record, or an
\* empty one (no file, or json.load raises JSONDecodeError)
load_tracking_file(dir) ==
    LET f == tracking[get_cache_directory(dir)]
    IN  IF ~f.exists \/ f.text # "record"
        THEN [last_checked |-> 0, files |-> EmptyMap]
        ELSE [last_checked |-> f.last_checked, files |-> f.files]

\* storage.save_tracking_file, as the new value of the variable tracking
save_tracking_file(dir, data) ==
    [tracking EXCEPT ![get_cache_directory(dir)] =
        [exists |-> TRUE, text |-> "record",
         last_checked |-> data.last_checked, files |-> data.files]]

\* client.has_collection(collection_name) on the client of dir
has_collection(dir) == store[get_cache_directory(dir)].exists

\* The stored entities as a bag (auto_id: equal rows are kept apart)
BagAdd(b, S) ==
    [e \in DOMAIN b \cup S |->
        (IF e \in DOMAIN b THEN b[e] ELSE 0) + (IF e \in S THEN 1 ELSE 0)]

\* client.delete(filter='path == "<p>"') for every p of paths
BagDeletePaths(b, paths) == [e \in {x \in DOMAIN b : x.path \notin paths} |-> b[e]]

(* --------------------------- the file system --------------------------- *)
\* indexer.get_file_hash_and_mtime
get_file_hash_and_mtime(p) ==
    <<md5(disk[p.root][p.name].content), disk[p.root][p.name].mtime>>

\* indexer.list_knowledge_files (recursive, all supported types)
list_knowledge_files(dir) ==
    { FilePath(dir, n) : n \in
        { m \in FileNames : /\ disk[dir][m].present
                            /\ from_extension(m[2]) # "none" } }

\* get_changed_files without the comparison: every knowledge file is "changed"
get_changed_files_all(dir) == list_knowledge_files(dir)

\* indexer.get_changed_files
get_changed_files(dir) ==
    LET tracked_files == load_tracking_file(dir).files
    IN  { p \in list_knowledge_files(dir) :
            \/ p \notin DOMAIN tracked_files
            \/ get_file_hash_and_mtime(p)[1] # tracked_files[p][1]
            \/ get_file_hash_and_mtime(p)[2] # tracked_files[p][2] }

(* ------------------------- the state of a pass ------------------------- *)
NoResult == [status |-> "none", message |-> "none", processed_files |-> 0, total_chunks |-> 0]

Result(st, msg, pf, tc) ==
    [status |-> st, message |-> msg, processed_files |-> pf, total_chunks |-> tc]

IdleTask ==
    [pc |-> "idle", dir |-> RootA, force |-> FALSE, files |-> {}, chunks |-> <<>>,
     vectors |-> <<>>, log |-> <<>>, result |-> NoResult,
     preTracking |-> NoTracking, preStore |-> NoCollection, quiet |-> FALSE]

\* No pass over the directory has finished yet (or its index was dropped since)
NotRun == [ran |-> FALSE, status |-> "none", dirty |-> {}, clean |-> TRUE]

InFlight(t) == task[t].pc \notin {"idle", "done"}

NoneInFlight == \A t \in Tasks : ~InFlight(t)

\* The result of a call other than a pass: its status, its message and, for
\* a search, its result items
NoAnswer == [status |-> "none", message |-> "none", results |-> <<>>]

Answer(st, msg, res) == [status |-> st, message |-> msg, results |-> res]

\* No call yet
IdleCall ==
    [op |-> "none", pc |-> "idle", dir |-> RootA, query |-> "none", limit |-> 0,
     threshold |-> 0, result |-> NoAnswer, hits |-> <<>>,
     touched |-> FALSE, embedded |-> FALSE, refreshed |-> FALSE, failed |-> {},
     indexed |-> FALSE, tags |-> <<>>, filters |-> <<>>, queried |-> FALSE,
     filter |-> <<>>]

CallInFlight == call.pc \notin {"idle", "done"}

\* No aggregate search yet
IdleAgg ==
    [pc |-> "idle", query |-> "none", limit |-> 0, threshold |-> 0,
     pending |-> <<>>, waiting |-> FALSE, all_results |-> <<>>, refreshed |-> {},
     failed |-> {}, result |-> NoAnswer]

\* No call and no aggregate search is between its first step and its return
Quiet == ~CallInFlight /\ agg.pc # "run"

(* -------------------- functions applied to sample inputs --------------- *)
\* No function is being applied
NothingApplied == [fn |-> "none", args |-> <<>>, out |-> [status |-> "none"]]

\* fn is about to be applied to args
Pending(fn, args) == [fn |-> fn, args |-> args, out |-> [status |-> "pending"]]

\* Front matters: none; a list of tags with Type and sharpe; a list of tags
\* that the filter rejects (a colour, a heading marker, one letter); tags as
\* one comma-separated string; a list that holds an integer (tags: [bt, 2024]);
\* tags that are a mapping, sharpe that is no number
FrontMatters ==
    { NoFrontMatter,
      [tags |-> [kind |-> "list", items |-> <<StrVal(<<"b", "t">>), StrVal(<<"#", "q", "x">>)>>],
       Type |-> StrVal(<<"F">>), sharpe |-> FloatVal(2)],
      [tags |-> [kind |-> "list",
                 items |-> <<StrVal(<<"a", "b", "1">>), StrVal(<<"h", "2">>), StrVal(<<"a">>)>>],
       Type |-> None, sharpe |-> IntVal(1)],
      [tags |-> [kind |-> "str", text |-> <<"b", "t", ",", " ", "q", "x", " ", ",">>],
       Type |-> None, sharpe |-> None],
      [tags |-> [kind |-> "list", items |-> <<StrVal(<<"b", "t">>), IntVal(2024)>>],
       Type |-> None, sharpe |-> None],
      [tags |-> [kind |-> "other"], Type |-> None, sharpe |-> StrVal(<<"n", "/", "a">>)] }

\* What open() and read() do with a file
ReadOutcomes == {"ok", "FileNotFoundError", "PermissionError", "UnicodeDecodeError"}

MarkdownFiles ==
    [read : {"ok"}, front : FrontMatters, body : Texts]
        \cup [read : ReadOutcomes \ {"ok"}, front : {NoFrontMatter}, body : {TextBtx}]

PythonFiles ==
    [read : ReadOutcomes, ast : {"module", "SyntaxError"}, docstring : {TextPlain, TextHex},
     stem : {<<"b">>}]

NotebookFiles ==
    [read : ReadOutcomes, json : {"object", "JSONDecodeError", "array"},
     cells : {<<>>, <<[cell_type |-> "markdown", source |-> TextStyleBlock],
                      [cell_type |-> "code", source |-> TextBtx]>>}]

\* The calls extract_metadata(file_path): the extension and the file
ExtractInputs ==
    ({"md"} \X MarkdownFiles) \cup ({"py", "pyx"} \X PythonFiles)
        \cup ({"ipynb"} \X NotebookFiles) \cup ({"txt"} \X PythonFiles)


\* Nothing is indexed yet; the directories hold any files, written at time 0.
\* The clock shows 1 (an empty tracking record says last_checked 0).
OnDisk(c) == [present |-> TRUE, content |-> c, mtime |-> 0]

InitialFiles == [FileNames -> {NoFile} \cup {OnDisk(c) : c \in Contents}]

NoFiles == [n \in FileNames |-> NoFile]

InitIdle ==
    /\ clock = 1
    /\ tracking = [cd \in CacheDirs |-> NoTracking]
    /\ store = [cd \in CacheDirs |-> NoCollection]
    /\ task = [t \in Tasks |-> IdleTask]
    /\ lastPass = [r \in RootPaths |-> NotRun]
    /\ knowledges = <<>>
    /\ call = IdleCall
    /\ agg = IdleAgg

Init0 ==
    /\ InitIdle
    /\ applied = NothingApplied

\* One root, one caller at a time.
Init ==
    /\ roots = {RootA}
    /\ serial = TRUE
    /\ disk \in [RootPaths -> InitialFiles]
    /\ \A r \in RootPaths \ roots : disk[r] = NoFiles
    /\ Init0

\* One root, indexed by callers in two processes (the CLI and the server, or
\* two workers of the CLI's reindex): their steps interleave.
InitConc ==
    /\ roots = {RootA}
    /\ serial = FALSE
    /\ disk = [r \in RootPaths |->
                IF r = RootA
                THEN [n \in FileNames |->
                        IF n = <<"a", "md">> THEN OnDisk(CHOOSE c \in Contents : c.id = "long")
                        ELSE NoFile]
                ELSE NoFiles]
    /\ Init0

\* Two roots, one caller at a time; each root holds one markdown file.
InitRoots ==
    /\ roots \in {{RootA, RootB}, {RootA, RootC}}
    /\ serial = TRUE
    /\ disk = [r \in RootPaths |->
                IF r \in roots
                THEN [n \in FileNames |->
                        IF n = <<"a", "md">> THEN OnDisk(CHOOSE c \in Contents : c.id = "long")
                        ELSE NoFile]
                ELSE NoFiles]
    /\ Init0

(* --------------------------- file system events ------------------------ *)
\* A file under dir is created or rewritten (the same bytes again: touched).
WriteFile(dir, n, c) ==
    /\ NoneInFlight
    /\ clock < MaxClock
    /\ clock' = clock + 1
    /\ disk' = [disk EXCEPT ![dir][n] =
                    [present |-> TRUE, content |-> c, mtime |-> clock + 1]]
    /\ lastPass' = [lastPass EXCEPT ![dir].dirty = @ \cup {n}]
    /\ UNCHANGED <<applied, roots, serial, knowledges, call, agg, tracking, store, task>>

RemoveFile(dir, n) ==
    /\ NoneInFlight
    /\ clock < MaxClock
    /\ disk[dir][n].present
    /\ clock' = clock + 1
    /\ disk' = [disk EXCEPT ![dir][n] = NoFile]
    /\ lastPass' = [lastPass EXCEPT ![dir].dirty = @ \cup {n}, ![dir].clean = FALSE]
    /\ UNCHANGED <<applied, roots, serial, knowledges, call, agg, tracking, store, task>>


(* ----------------------- index_directory, by steps --------------------- *)
Op(name, paths) == [op |-> name, paths |-> paths]

Logged(tk, name, paths) == [tk EXCEPT !.log = Append(@, Op(name, paths))]

RECURSIVE SetToSeq(_)
SetToSeq(S) ==
    IF S = {} THEN <<>>
    ELSE LET x == CHOOSE y \in S : TRUE IN <<x>> \o SetToSeq(S \ {x})

\* files_by_type[kind], in the order the pass walks them
FilesOfType(files, kind) ==
    SetToSeq({p \in files : from_extension(p.name[2]) = kind})

\* The documents loaded: every markdown file, then the Python files and the
\* notebooks that are not larger than max_file_size_mb
LoadDocuments(files) ==
    LET sized(ps) == SelectSeq(ps, LAMBDA p : ~(disk[p.root][p.name].content.mb > max_file_size_mb))
    IN  FilesOfType(files, "md") \o sized(FilesOfType(files, "py"))
            \o sized(FilesOfType(files, "ipynb"))

\* indexer.py:280-315: PythonParser.extract_text and JupyterParser.extract_text
\* catch FileNotFoundError and UnicodeDecodeError (and JSONDecodeError) only;
\* TRUE when the text of one of these files cannot be had
extract_text_raises(files) ==
    \E i \in 1..Len(LoadDocuments(files)) :
        LET p == LoadDocuments(files)[i]
        IN  /\ from_extension(p.name[2]) \in {"py", "ipynb"}
            /\ FileView(p.name, disk[p.root][p.name].content).read = "PermissionError"

\* The chunks the splitter cuts one document into
ChunksOfDoc(p) ==
    LET c == disk[p.root][p.name].content
    IN  [i \in 1..Len(c.chunks) |->
            [path |-> p, text |-> [of |-> c.id, i |-> i, len |-> c.chunks[i]]]]

RECURSIVE ChunkAll(_)
ChunkAll(docs) == IF docs = <<>> THEN <<>> ELSE ChunksOfDoc(docs[1]) \o ChunkAll(Tail(docs))

\* The filter with the comparison made strict
KeepChunk_strict(ch) == ch.text.len > MinChunkChars

\* len(node.text.strip()) >= 50
KeepChunk(ch) == ch.text.len >= MinChunkChars

FilterChunks(chs) == SelectSeq(chs, KeepChunk)

\* embedding_fn.encode_documents on one text
encode_document(text) == <<"vec", text.of, text.i>>

\* metadata.build_entity_dict plus the vector: the flattened fields come
\* from the metadata of the chunk's file
build_entity(ch, vector) ==
    LET doc_metadata == file_metadata(ch.path.name, ContentById(ch.text.of))
    IN  [path |-> ch.path, text |-> ch.text, vector |-> vector,
         tags_str |-> json_dumps(doc_metadata.tags),
         type_field |-> doc_metadata.type_field,
         sharpe |-> doc_metadata.sharpe]

\* The entities a file of this content under this path gives
EntitiesFrom(p, c) ==
    IF from_extension(p.name[2]) # "md" /\ c.mb > max_file_size_mb THEN {}
    ELSE { build_entity([path |-> p, text |-> [of |-> c.id, i |-> i, len |-> c.chunks[i]]],
                        encode_document([of |-> c.id, i |-> i, len |-> c.chunks[i]]))
             : i \in {j \in 1..Len(c.chunks) : c.chunks[j] >= MinChunkChars} }

\* The pass of caller t returns: its result, and what it leaves behind
Finish(t, tk, res) ==
    /\ task' = [task EXCEPT ![t] = [tk EXCEPT !.pc = "done", !.result = res]]
    /\ lastPass' = [lastPass EXCEPT ![tk.dir] =
                        [ran |-> TRUE, status |-> res.status, dirty |-> {},
                         clean |-> lastPass[tk.dir].clean /\ res.status = "success"]]

Goto(t, tk, pc) ==
    /\ task' = [task EXCEPT ![t] = [tk EXCEPT !.pc = pc]]
    /\ UNCHANGED lastPass

\* indexer.py:189-200: the call starts
StartedTask(dir, force) ==
    [IdleTask EXCEPT
        !.pc = IF force THEN "drop" ELSE "check",
        !.dir = dir,
        !.force = force,
        !.preTracking = tracking[get_cache_directory(dir)],
        !.preStore = store[get_cache_directory(dir)],
        !.quiet = /\ lastPass[dir].ran
                  /\ lastPass[dir].status = "success"
                  /\ lastPass[dir].dirty = {}]

\* indexer.py:189-200 and :452-453: validate_path lets the call go on, or
\* raises PermissionError and the call returns at once
IndexBegin(t, dir, force) ==
    IF validate_path(dir)
    THEN /\ task' = [task EXCEPT ![t] = StartedTask(dir, force)]
         /\ UNCHANGED lastPass
    ELSE Finish(t, StartedTask(dir, force), Result("error", "Permission denied", 0, 0))

IndexStart(t, dir, force) ==
    /\ ~InFlight(t)
    /\ dir \in roots
    /\ serial => (t = 1 /\ NoneInFlight)
    /\ IndexBegin(t, dir, force)
    /\ UNCHANGED <<applied, roots, serial, knowledges, call, agg, clock, disk, tracking, store>>

\* ForceDrop without the drop: the old collection is kept
ForceDrop_keep(t) ==
    /\ task[t].pc = "drop"
    /\ Goto(t, task[t], "ensure")
    /\ UNCHANGED <<applied, roots, serial, knowledges, call, agg, clock, disk, tracking, store>>

\* indexer.py:202-206: drop the existing collection
ForceDrop(t) ==
    LET tk == task[t]
        cd == get_cache_directory(tk.dir)
    IN  /\ tk.pc = "drop"
        /\ IF has_collection(tk.dir)
           THEN /\ store' = [store EXCEPT ![cd] = NoCollection]
                /\ Goto(t, Logged(tk, "drop", {}), "ensure")
           ELSE /\ UNCHANGED store
                /\ Goto(t, tk, "ensure")
        /\ UNCHANGED <<applied, roots, serial, knowledges, call, agg, clock, disk, tracking>>

\* storage.ensure_collection (indexer.py:208 and :230)
ensure_collection(t) ==
    LET tk == task[t]
        cd == get_cache_directory(tk.dir)
        next == IF tk.force THEN "discover" ELSE "delete"
    IN  /\ tk.pc = "ensure"
        /\ IF has_collection(tk.dir)
           THEN /\ UNCHANGED store
                /\ Goto(t, tk, next)
           ELSE /\ store' = [store EXCEPT ![cd] = [exists |-> TRUE, ents |-> EmptyMap]]
                /\ Goto(t, Logged(tk, "create", {}), next)
        /\ UNCHANGED <<applied, roots, serial, knowledges, call, agg, clock, disk, tracking>>

\* indexer.py:210-215: every knowledge file is a candidate
Discover(t) ==
    LET tk == task[t]
    IN  /\ tk.pc = "discover"
        /\ Goto(t, [tk EXCEPT !.files = list_knowledge_files(tk.dir)], "load")
        /\ UNCHANGED <<applied, roots, serial, knowledges, call, agg, clock, disk, tracking, store>>

\* indexer.py:218-227: the changed files, or the early return
CheckChanges(t) ==
    LET tk == task[t]
        changed_files == get_changed_files(tk.dir)
    IN  /\ tk.pc = "check"
        /\ IF load_tracking_file_raises(tk.dir)
           THEN Finish(t, tk, Result("error", "TypeError", 0, 0))
           ELSE IF changed_files = {}
           THEN Finish(t, tk, Result("success", "Already up to date", 0, 0))
           ELSE /\ task' = [task EXCEPT ![t] =
                        [tk EXCEPT !.pc = "ensure", !.files = changed_files]]
                /\ UNCHANGED lastPass
        /\ UNCHANGED <<applied, roots, serial, knowledges, call, agg, clock, disk, tracking, store>>

\* indexer.py:232-243: delete the old chunks of every changed file; a delete
\* that raises (no such collection) is swallowed
DeleteOld(t) ==
    LET tk == task[t]
        cd == get_cache_directory(tk.dir)
    IN  /\ tk.pc = "delete"
        /\ store' = IF has_collection(tk.dir)
                    THEN [store EXCEPT ![cd].ents = BagDeletePaths(@, tk.files)]
                    ELSE store
        /\ Goto(t, Logged(tk, "delete", tk.files), "load")
        /\ UNCHANGED <<applied, roots, serial, knowledges, call, agg, clock, disk, tracking>>

\* The load step without its two early returns
LoadAndChunk_noreturn(t) ==
    /\ task[t].pc = "load"
    /\ task' = [task EXCEPT ![t] =
            [task[t] EXCEPT !.pc = "embed",
                            !.chunks = FilterChunks(ChunkAll(LoadDocuments(task[t].files)))]]
    /\ UNCHANGED <<applied, roots, serial, knowledges, call, agg, clock, disk, tracking, store, lastPass>>

\* indexer.py:245-373: load, parse, chunk and filter; the two early returns,
\* and the exception of a file whose text cannot be read
LoadAndChunk(t) ==
    LET tk == task[t]
        documents == LoadDocuments(tk.files)
        chunked_nodes == FilterChunks(ChunkAll(documents))
    IN  /\ tk.pc = "load"
        /\ IF extract_text_raises(tk.files)
           THEN Finish(t, Logged(tk, "load_failed", {}), Result("error", "Permission denied", 0, 0))
           ELSE IF documents = <<>>
           THEN Finish(t, tk, Result("success", "No documents to index", 0, 0))
           ELSE IF chunked_nodes = <<>>
           THEN Finish(t, tk, Result("success", "No content to index (all chunks empty)",
                                     Cardinality(tk.files), 0))
           ELSE /\ task' = [task EXCEPT ![t] =
                        [tk EXCEPT !.pc = "embed", !.chunks = chunked_nodes]]
                /\ UNCHANGED lastPass
        /\ UNCHANGED <<applied, roots, serial, knowledges, call, agg, clock, disk, tracking, store>>

Min(a, b) == IF a < b THEN a ELSE b

\* indexer.py:381-394: one batch through the embedding function, which
\* answers or raises
EmbedBatch(t) ==
    LET tk == task[t]
        i == Len(tk.vectors)
        batch_texts == SubSeq(tk.chunks, i + 1, Min(i + batch_size, Len(tk.chunks)))
        batch_vectors == [k \in 1..Len(batch_texts) |-> encode_document(batch_texts[k].text)]
        vectors == tk.vectors \o batch_vectors
    IN  /\ tk.pc = "embed"
        /\ \/ Goto(t, [Logged(tk, "embed", {}) EXCEPT !.vectors = vectors],
                   IF Len(vectors) = Len(tk.chunks) THEN "insert" ELSE "embed")
           \/ Finish(t, Logged(tk, "embed_failed", {}), Result("error", "embedding failed", 0, 0))
        /\ UNCHANGED <<applied, roots, serial, knowledges, call, agg, clock, disk, tracking, store>>

\* InsertEntities with the failure swallowed: the pass goes on to the
\* tracking update
InsertEntities_swallow(t) ==
    LET tk == task[t]
        cd == get_cache_directory(tk.dir)
        data == {build_entity(tk.chunks[k], tk.vectors[k]) : k \in 1..Len(tk.chunks)}
    IN  /\ tk.pc = "insert"
        /\ \/ /\ has_collection(tk.dir)
              /\ store' = [store EXCEPT ![cd].ents = BagAdd(@, data)]
              /\ Goto(t, Logged(tk, "insert", {}), "track")
           \/ /\ UNCHANGED store
              /\ Goto(t, Logged(tk, "insert_failed", {}), "track")
        /\ UNCHANGED <<applied, roots, serial, knowledges, call, agg, clock, disk, tracking>>

\* indexer.py:396-417: build the entities and insert them in one call, which
\* succeeds on an existing collection or raises
InsertEntities(t) ==
    LET tk == task[t]
        cd == get_cache_directory(tk.dir)
        data == {build_entity(tk.chunks[k], tk.vectors[k]) : k \in 1..Len(tk.chunks)}
    IN  /\ tk.pc = "insert"
        /\ \/ /\ has_collection(tk.dir)
              /\ store' = [store EXCEPT ![cd].ents = BagAdd(@, data)]
              /\ Goto(t, Logged(tk, "insert", {}), "track")
           \/ /\ UNCHANGED store
              /\ Finish(t, Logged(tk, "insert_failed", {}), Result("error", "insert failed", 0, 0))
        /\ UNCHANGED <<applied, roots, serial, knowledges, call, agg, clock, disk, tracking>>

\* UpdateTracking that also purges the tracked files missing from disk
UpdateTracking_purge(t) ==
    LET tk == task[t]
        tracking_data == load_tracking_file(tk.dir)
        hashed == {p \in tk.files : disk[p.root][p.name].present}
        kept == {p \in DOMAIN tracking_data.files : disk[p.root][p.name].present}
        files == [p \in kept \cup hashed |->
                    IF p \in hashed THEN get_file_hash_and_mtime(p)
                    ELSE tracking_data.files[p]]
        mode == IF tk.force THEN "Full reindex" ELSE "Incremental update"
    IN  /\ tk.pc = "track"
        /\ tracking' = save_tracking_file(tk.dir, [last_checked |-> clock, files |-> files])
        /\ Finish(t, Logged(tk, "track", {}),
                  Result("success", mode, Cardinality(tk.files), Len(tk.chunks)))
        /\ UNCHANGED <<applied, roots, serial, knowledges, call, agg, clock, disk, store>>

\* indexer.py:419-450: the tracking update and the result
UpdateTracking(t) ==
    LET tk == task[t]
        tracking_data == load_tracking_file(tk.dir)
        hashed == {p \in tk.files : disk[p.root][p.name].present}
        files == [p \in DOMAIN tracking_data.files \cup hashed |->
                    IF p \in hashed THEN get_file_hash_and_mtime(p)
                    ELSE tracking_data.files[p]]
        mode == IF tk.force THEN "Full reindex" ELSE "Incremental update"
    IN  /\ tk.pc = "track"
        /\ IF load_tracking_file_raises(tk.dir)
           THEN /\ UNCHANGED tracking
                /\ Finish(t, Logged(tk, "track_failed", {}), Result("error", "TypeError", 0, 0))
           ELSE /\ tracking' = save_tracking_file(tk.dir,
                                    [last_checked |-> clock, files |-> files])
                /\ Finish(t, Logged(tk, "track", {}),
                          Result("success", mode, Cardinality(tk.files), Len(tk.chunks)))
        /\ UNCHANGED <<applied, roots, serial, knowledges, call, agg, clock, disk, store>>

\* storage.py:180-181: the process dies inside save_tracking_file, after
\* open(tracking_path, "w") has emptied the file and before json.dump has
\* written all of the record
CrashInSave(t) ==
    LET tk == task[t]
        cd == get_cache_directory(tk.dir)
    IN  /\ tk.pc = "track"
        /\ ~load_tracking_file_raises(tk.dir)
        /\ tracking' = [tracking EXCEPT ![cd] =
                [exists |-> TRUE, text |-> "truncated", last_checked |-> 0, files |-> EmptyMap]]
        /\ Finish(t, Logged(tk, "crash", {}), Result("crashed", "none", 0, 0))
        /\ UNCHANGED <<applied, roots, serial, knowledges, call, agg, clock, disk, store>>

\* Another program (an editor, a sync tool) leaves other bytes in tracking.json
EditTracking(dir, text) ==
    LET cd == get_cache_directory(dir)
    IN  /\ dir \in roots
        /\ NoneInFlight
        /\ text \in {"notjson", "array"}
        /\ tracking[cd].text = "record"
        /\ tracking' = [tracking EXCEPT ![cd] =
                [exists |-> TRUE, text |-> text, last_checked |-> 0, files |-> EmptyMap]]
        /\ UNCHANGED <<applied, roots, serial, knowledges, call, agg, clock, disk, store, task, lastPass>>

(* ------------------------ calls other than the pass -------------------- *)
\* The handler left out: the exception leaves the operation
except_handler_none(e) == Answer("raised", e, <<>>)

\* The except clauses that end every operation (searcher.py:195-198,
\* storage.py:283-284): the exception becomes a result
except_handler(e) ==
    IF e = "PermissionError"
    THEN Answer("error", "Permission denied", <<>>)
    ELSE Answer("error", e, <<>>)

\* A call of operation op on dir has begun; indexed: its collection exists
NewCall(op, dir) ==
    [IdleCall EXCEPT !.op = op, !.dir = dir, !.indexed = has_collection(dir)]

Returned(c, answer) == [c EXCEPT !.pc = "done", !.result = answer]

\* storage.drop_index: the collection and the cache directory go, or a call
\* to the store or the file system raises
drop_index(dir) ==
    LET cd == get_cache_directory(dir)
        c == [IdleCall EXCEPT !.op = "drop_index", !.dir = dir, !.touched = TRUE]
    IN  /\ dir \in roots
        /\ serial => NoneInFlight
        /\ ~CallInFlight /\ agg.pc # "run"
        /\ \/ /\ store' = [store EXCEPT ![cd] = NoCollection]
              /\ tracking' = [tracking EXCEPT ![cd] = NoTracking]
              /\ lastPass' = [r \in RootPaths |->
                                IF get_cache_directory(r) = cd THEN NotRun ELSE lastPass[r]]
              /\ call' = Returned(c, Answer("success", "Dropped index", <<>>))
           \/ /\ store[cd].exists
              /\ call' = Returned([c EXCEPT !.failed = {"drop_collection"}],
                                  except_handler("drop failed"))
              /\ UNCHANGED <<store, tracking, lastPass>>
        /\ UNCHANGED <<applied, roots, serial, knowledges, agg, clock, disk, task>>

(* ------------------------------- search -------------------------------- *)
\* Scores and distances are decimal fractions with five places: One is 1.0
\* (searcher.py:166).
One == 100000

\* config.rag.auto_refresh (config.py:85)
auto_refresh == TRUE

\* config.rag.auto_refresh_interval (config.py:86), in ticks of the clock:
\* a filesystem event comes one refresh interval after the one before
auto_refresh_interval == 1

\* The task that runs the pass auto_refresh_if_needed awaits (indexer.py:496)
RefreshTask == 2

Queries == {"q1", "q2"}

\* res["distance"] of client.search for a query and a stored vector
distance(q, vec) ==
    CASE q = "q1" /\ vec = <<"vec", "long", 1>> -> 49996
      [] q = "q1" /\ vec = <<"vec", "long", 2>> -> 50000
      [] q = "q1" /\ vec = <<"vec", "big", 1>>  -> 10000
      [] q = "q2" /\ vec = <<"vec", "long", 1>> -> 0 - 50000
      [] q = "q2" /\ vec = <<"vec", "long", 2>> -> 50001
      [] q = "q2" /\ vec = <<"vec", "big", 1>>  -> 150000
      [] q = "q1" /\ vec = <<"vec", "bt", 1>>   -> 30000
      [] q = "q1" /\ vec = <<"vec", "btx", 1>>  -> 40000
      [] q = "q1" /\ vec = <<"vec", "badfm", 1>> -> 45000
      [] OTHER -> One

\* round(score, 4): to the nearest multiple of 0.0001, a tie to the even one
round4(x) ==
    LET r == x % 10
        lo == x - r
    IN  IF r < 5 THEN lo
        ELSE IF r > 5 THEN lo + 10
        ELSE IF (lo \div 10) % 2 = 0 THEN lo ELSE lo + 10

\* The stored entities, the nearest to the query first
RECURSIVE NearestFirst(_, _)
NearestFirst(ents, q) ==
    IF DOMAIN ents = {} THEN <<>>
    ELSE LET e == CHOOSE x \in DOMAIN ents :
                    \A y \in DOMAIN ents : distance(q, x.vector) <= distance(q, y.vector)
             rest == IF ents[e] = 1
                     THEN [x \in DOMAIN ents \ {e} |-> ents[x]]
                     ELSE [ents EXCEPT ![e] = @ - 1]
         IN  <<[distance |-> distance(q, e.vector), entity |-> e]>> \o NearestFirst(rest, q)

\* client.search(collection_name, data, limit, output_fields, filter)[0]:
\* the nearest of the entities the filter lets through
client_search(dir, q, limit, filter) ==
    LET ents == store[get_cache_directory(dir)].ents
        let_through == [e \in {x \in DOMAIN ents : Matches(x, filter)} |-> ents[e]]
        all == NearestFirst(let_through, q)
    IN  SubSeq(all, 1, Min(limit, Len(all)))

\* The test with the boundary excluded
passes_threshold_strict(score, threshold) == score > threshold

\* searcher.py:169, the test `score < threshold: continue` negated
passes_threshold(score, threshold) == ~(score < threshold)

\* searcher.py:162-188: the hits become result items
RECURSIVE parse_results(_, _)
parse_results(hits, threshold) ==
    IF hits = <<>> THEN <<>>
    ELSE LET res == hits[1]
             score == One - res.distance
         IN  IF passes_threshold(score, threshold)
             THEN <<[text |-> res.entity.text, path |-> res.entity.path,
                     score |-> round4(score)]>> \o parse_results(Tail(hits), threshold)
             ELSE parse_results(Tail(hits), threshold)

\* indexer.should_auto_refresh, when load_tracking_file returns
should_auto_refresh(dir) ==
    /\ auto_refresh
    /\ clock - load_tracking_file(dir).last_checked >= auto_refresh_interval

\* searcher.py:116-122: validate_path and auto_refresh_if_needed, which
\* starts an incremental pass when the interval has elapsed
SearchBegin(dir, q, limit, threshold, tags, filters) ==
    LET c == [NewCall("search_documents", dir) EXCEPT
                    !.query = q, !.limit = limit, !.threshold = threshold,
                    !.tags = tags, !.filters = filters]
    IN  IF ~validate_path(dir)
        THEN /\ call' = Returned(c, except_handler("PermissionError"))
             /\ UNCHANGED task
        ELSE IF load_tracking_file_raises(dir)
        THEN /\ call' = Returned([c EXCEPT !.touched = TRUE, !.failed = {"load_tracking_file"}],
                                 except_handler("TypeError"))
             /\ UNCHANGED task
        ELSE IF should_auto_refresh(dir)
        THEN /\ call' = [c EXCEPT !.pc = "refresh", !.touched = TRUE, !.refreshed = TRUE]
             /\ task' = [task EXCEPT ![RefreshTask] = StartedTask(dir, FALSE)]
        ELSE /\ call' = [c EXCEPT !.pc = "query", !.touched = TRUE]
             /\ UNCHANGED task

\* search_documents is called for one directory
SearchStart(dir, q, limit, threshold) ==
    /\ dir \in roots
    /\ Quiet
    /\ ~InFlight(RefreshTask)
    /\ serial => NoneInFlight
    /\ SearchBegin(dir, q, limit, threshold, <<>>, <<>>)
    /\ UNCHANGED <<applied, roots, serial, knowledges, agg, clock, disk, tracking, store, lastPass>>

\* searcher.py:124-198: after the refresh pass has returned (its result is
\* dropped), the collection is looked up, the query embedded and the store
\* searched with the filter built from the tags and the metadata filters;
\* either call answers or raises, and client.search raises on a filter the
\* store does not accept
SearchQuery ==
    LET c == [call EXCEPT !.failed =
                    IF call.pc = "refresh" /\ task[RefreshTask].result.status = "error"
                    THEN {"auto_refresh"} ELSE {}]
        combined == combined_filter(c.tags, c.filters)
        hits == client_search(c.dir, c.query, c.limit, combined)
    IN  /\ call.op = "search_documents"
        /\ \/ call.pc = "query"
           \/ call.pc = "refresh" /\ task[RefreshTask].pc = "done"
        /\ IF ~has_collection(c.dir)
           THEN call' = Returned(c, Answer("error", "Directory not indexed", <<>>))
           ELSE \/ /\ FilterAccepted(combined)
                   /\ call' = Returned([c EXCEPT !.embedded = TRUE, !.hits = hits,
                                            !.queried = TRUE, !.filter = combined],
                            Answer("success", "none", parse_results(hits, c.threshold)))
                \/ call' = Returned([c EXCEPT !.embedded = TRUE, !.failed = @ \cup {"encode_queries"}],
                            except_handler("embedding failed"))
                \/ call' = Returned([c EXCEPT !.embedded = TRUE, !.failed = @ \cup {"search"},
                                            !.queried = TRUE, !.filter = combined],
                            except_handler("search failed"))
        /\ UNCHANGED <<applied, roots, serial, knowledges, agg, clock, disk, tracking, store, task, lastPass>>

\* searcher.get_all_tags and searcher.get_metadata_fields (op names which):
\* validate_path, the collection is looked up and queried
QueryCollection(op, dir) ==
    LET c == NewCall(op, dir)
    IN  /\ dir \in roots
        /\ ~CallInFlight /\ agg.pc # "run"
        /\ serial => NoneInFlight
        /\ IF ~validate_path(dir)
           THEN call' = Returned(c, except_handler("PermissionError"))
           ELSE IF ~has_collection(dir)
           THEN call' = Returned([c EXCEPT !.touched = TRUE],
                                 Answer("error", "Directory not indexed", <<>>))
           ELSE \/ call' = Returned([c EXCEPT !.touched = TRUE], Answer("success", "none", <<>>))
                \/ call' = Returned([c EXCEPT !.touched = TRUE, !.failed = {"query"}],
                                    except_handler("query failed"))
        /\ UNCHANGED <<applied, roots, serial, knowledges, agg, clock, disk, tracking, store, task, lastPass>>

get_all_tags(dir) == QueryCollection("get_all_tags", dir)

get_metadata_fields(dir) == QueryCollection("get_metadata_fields", dir)

(* ------------------- knowledge_search over every root ------------------ *)
\* for kb_name, kb_info in knowledges.items(): for kb_path in kb_info["paths"]
RECURSIVE KbPaths(_)
KbPaths(kbs) ==
    IF kbs = <<>> THEN <<>>
    ELSE [i \in 1..Len(kbs[1].paths) |-> [name |-> kbs[1].name, path |-> kbs[1].paths[i]]]
            \o KbPaths(Tail(kbs))

\* r['knowledge_base'] = kb_name, for every result
Tagged(results, kb_name) ==
    [i \in 1..Len(results) |->
        [text |-> results[i].text, path |-> results[i].path, score |-> results[i].score,
         knowledge_base |-> kb_name]]

\* Where list.sort(key=score, reverse=True) puts r in a sorted list: behind
\* every item whose score is not lower
RECURSIVE InsertByScore(_, _)
InsertByScore(s, r) ==
    IF s = <<>> THEN <<r>>
    ELSE IF s[1].score >= r.score THEN <<s[1]>> \o InsertByScore(Tail(s), r)
    ELSE <<r>> \o s

\* The sort left out
sort_by_score_none(s) == s

\* all_results.sort(key=lambda x: x.get('score', 0), reverse=True)
RECURSIVE sort_by_score(_)
sort_by_score(s) ==
    IF s = <<>> THEN <<>>
    ELSE InsertByScore(sort_by_score(SubSeq(s, 1, Len(s) - 1)), s[Len(s)])

\* server.py:399-402: no directory given; the registry is read
AggStart(q, limit, threshold) ==
    /\ agg.pc # "run" /\ ~CallInFlight
    /\ serial => NoneInFlight
    /\ agg' = IF knowledges = <<>>
              THEN [IdleAgg EXCEPT !.pc = "done", !.query = q, !.limit = limit,
                        !.threshold = threshold,
                        !.result = Answer("error", "No knowledge bases registered", <<>>)]
              ELSE [IdleAgg EXCEPT !.pc = "run", !.query = q, !.limit = limit,
                        !.threshold = threshold, !.pending = KbPaths(knowledges)]
    /\ UNCHANGED <<applied, roots, serial, knowledges, call, clock, disk, tracking, store, task, lastPass>>

\* server.py:408: search_documents is called for the next path
AggSearch ==
    /\ agg.pc = "run" /\ agg.pending # <<>> /\ ~agg.waiting
    /\ SearchBegin(agg.pending[1].path, agg.query, agg.limit, agg.threshold, <<>>, <<>>)
    /\ agg' = [agg EXCEPT !.waiting = TRUE]
    /\ UNCHANGED <<applied, roots, serial, knowledges, clock, disk, tracking, store, lastPass>>

\* server.py:409-414: the results of a successful search are tagged and kept
AggCollect ==
    LET ok == call.result.status = "success" /\ call.result.results # <<>>
    IN  /\ agg.pc = "run" /\ agg.waiting /\ call.pc = "done"
        /\ agg' = [agg EXCEPT
                !.waiting = FALSE,
                !.pending = Tail(@),
                !.refreshed = IF call.refreshed THEN @ \cup {call.dir} ELSE @,
                !.failed = IF call.result.status # "success" THEN @ \cup {call.dir} ELSE @,
                !.all_results = IF ok THEN @ \o Tagged(call.result.results, agg.pending[1].name)
                                ELSE @]
        /\ UNCHANGED <<applied, roots, serial, knowledges, call, clock, disk, tracking, store, task, lastPass>>

\* server.py:418-428: sort by score, cut to limit, return
AggFinish ==
    LET sorted == sort_by_score(agg.all_results)
    IN  /\ agg.pc = "run" /\ agg.pending = <<>>
        /\ agg' = [agg EXCEPT !.pc = "done",
                      !.result = Answer("success", "none",
                                    SubSeq(sorted, 1, Min(agg.limit, Len(sorted))))]
        /\ UNCHANGED <<applied, roots, serial, knowledges, call, clock, disk, tracking, store, task, lastPass>>

\* A step of a pass that has started
PassStep(t) ==
    \/ ForceDrop(t)
    \/ ensure_collection(t)
    \/ Discover(t)
    \/ CheckChanges(t)
    \/ DeleteOld(t)
    \/ LoadAndChunk(t)
    \/ EmbedBatch(t)
    \/ InsertEntities(t)
    \/ UpdateTracking(t)

\* A step of an incremental pass that has started
IncrementalStep(t) ==
    \/ CheckChanges(t)
    \/ ensure_collection(t)
    \/ DeleteOld(t)
    \/ LoadAndChunk(t)
    \/ EmbedBatch(t)
    \/ InsertEntities(t)
    \/ UpdateTracking(t)

\* The callers only: the files do not change and no index is dropped
NextConc ==
    \/ \E t \in Tasks, dir \in roots, force \in BOOLEAN : IndexStart(t, dir, force)
    \/ \E t \in Tasks : PassStep(t)

Next ==
    \/ \E dir \in roots, n \in FileNames, c \in Contents : WriteFile(dir, n, c)
    \/ \E dir \in roots, n \in FileNames : RemoveFile(dir, n)
    \/ \E t \in Tasks, dir \in roots, force \in BOOLEAN : IndexStart(t, dir, force)
    \/ \E t \in Tasks : ForceDrop(t)
    \/ \E t \in Tasks : ensure_collection(t)
    \/ \E t \in Tasks : Discover(t)
    \/ \E t \in Tasks : CheckChanges(t)
    \/ \E t \in Tasks : DeleteOld(t)
    \/ \E t \in Tasks : LoadAndChunk(t)
    \/ \E t \in Tasks : EmbedBatch(t)
    \/ \E t \in Tasks : InsertEntities(t)
    \/ \E t \in Tasks : UpdateTracking(t)
    \/ \E dir \in roots : drop_index(dir)

Spec == Init /\ [][Next]_vars

SpecConc == InitConc /\ [][NextConc]_vars

SpecRoots == InitRoots /\ [][Next]_vars

\* The registries of the search behaviours: none, two knowledge bases, and
\* one whose second path is outside the allowed directories
Registries ==
    { <<>>,
      << [name |-> "kbA", paths |-> <<RootA>>], [name |-> "kbC", paths |-> <<RootC>>] >>,
      << [name |-> "kbA", paths |-> <<RootA, RootD>>] >> }

SearchInputs ==
    { [query |-> "q1", limit |-> 2, threshold |-> 50000],
      [query |-> "q1", limit |-> 1, threshold |-> 50003],
      [query |-> "q2", limit |-> 2, threshold |-> 50000] }

\* The directories with one markdown file in RootC and, when withA, one in
\* RootA
OneFileEach(withA) ==
    [r \in RootPaths |->
        IF r = RootC \/ (r = RootA /\ withA)
        THEN [n \in FileNames |->
                IF n = <<"a", "md">>
                THEN OnDisk(CHOOSE c \in Contents :
                                c.id = (IF r = RootA THEN "long" ELSE "big"))
                ELSE NoFile]
        ELSE NoFiles]

\* RootC holds one markdown file, RootA one or none; nothing is indexed yet,
\* no call has been made
InitServer ==
    /\ serial = TRUE
    /\ disk \in {OneFileEach(withA) : withA \in BOOLEAN}
    /\ clock = 1
    /\ tracking = [cd \in CacheDirs |-> NoTracking]
    /\ store = [cd \in CacheDirs |-> NoCollection]
    /\ task = [t \in Tasks |-> IdleTask]
    /\ lastPass = [r \in RootPaths |-> NotRun]
    /\ call = IdleCall
    /\ agg = IdleAgg
    /\ applied = NothingApplied

\* The callers name one directory, allowed or not; no registry
InitSearch ==
    /\ roots = {RootA, RootD}
    /\ knowledges = <<>>
    /\ InitServer

\* The callers name no directory: the registry gives them
InitAggregate ==
    /\ roots = {RootA, RootC, RootD}
    /\ knowledges \in Registries
    /\ InitServer

\* The calls on one directory, one at a time
NextSearch ==
    \/ \E dir \in roots, force \in BOOLEAN : Quiet /\ IndexStart(1, dir, force)
    \/ \E t \in Tasks : PassStep(t)
    \/ \E dir \in roots : drop_index(dir)
    \/ \E dir \in roots, i \in SearchInputs : SearchStart(dir, i.query, i.limit, i.threshold)
    \/ SearchQuery
    \/ \E dir \in roots : get_all_tags(dir)
    \/ \E dir \in roots : get_metadata_fields(dir)

SpecSearch == InitSearch /\ [][NextSearch]_vars

\* The aggregate searches, one at a time
NextAggregate ==
    \/ \E i \in SearchInputs : AggStart(i.query, i.limit, i.threshold)
    \/ AggSearch
    \/ SearchQuery
    \/ IncrementalStep(RefreshTask)
    \/ AggCollect
    \/ AggFinish

SpecAggregate == InitAggregate /\ [][NextAggregate]_vars

\* One directory; the passes of one process and the searches of another
\* interleave
NextSearchConc ==
    \/ \E force \in BOOLEAN : IndexStart(1, RootA, force)
    \/ \E t \in Tasks : PassStep(t)
    \/ \E i \in SearchInputs : SearchStart(RootA, i.query, i.limit, i.threshold)
    \/ SearchQuery

SpecSearchConc == InitConc /\ [][NextSearchConc]_vars

\* One directory, one caller at a time; a pass may die while it saves the
\* tracking file, and the file may be overwritten from outside
NextTracking ==
    \/ \E n \in FileNames, c \in Contents : WriteFile(RootA, n, c)
    \/ \E force \in BOOLEAN : IndexStart(1, RootA, force)
    \/ \E t \in Tasks : PassStep(t)
    \/ \E t \in Tasks : CrashInSave(t)
    \/ \E text \in TrackingTexts : EditTracking(RootA, text)

SpecTracking == InitSearch /\ [][NextTracking]_vars

(* ------------------------ metadata extraction -------------------------- *)
\* metadata.extract_metadata is called and returns or raises
ExtractMetadata ==
    /\ applied.fn = "extract_metadata"
    /\ applied.out.status = "pending"
    /\ applied' = [applied EXCEPT !.out = extract_metadata(applied.args[1], applied.args[2])]
    /\ UNCHANGED <<roots, serial, knowledges, call, agg, clock, disk, tracking, store, task, lastPass>>

\* extract_metadata alone, on each of the sample files
InitExtract ==
    /\ roots = {}
    /\ serial = TRUE
    /\ disk = [r \in RootPaths |-> NoFiles]
    /\ InitIdle
    /\ applied \in {Pending("extract_metadata", x) : x \in ExtractInputs}

NextExtract == ExtractMetadata

SpecExtract == InitExtract /\ [][NextExtract]_vars

(* --------------------------- filtered search --------------------------- *)
FilterEntry(key, value) == [key |-> key, value |-> value]

\* Entries of a metadata filter map: a comparison; the Type alias; a
\* comparison written without blanks; a field with None; a field with a
\* list; a comparison of a string field with a number; a field with a number
EntryCompare == FilterEntry(<<"s", "h", "a", "r", "p", "e", " ", ">", " ", "1">>, None)
EntryType == FilterEntry(<<"T", "y", "p", "e">>, StrVal(<<"F">>))
EntryNoBlanks == FilterEntry(<<"s", "h", "a", "r", "p", "e", ">", "1">>, None)
EntryNone == FilterEntry(<<"s", "t", "r", "a", "t", "e", "g", "y">>, None)
EntryList == FilterEntry(<<"c", "a", "g", "r">>, ListVal)
EntryPathOrder == FilterEntry(<<"p", "a", "t", "h", " ", ">", " ", "1">>, None)
EntryNumber == FilterEntry(<<"d", "r", "a", "w", "d", "o", "w", "n">>, IntVal(2))
FilterEntries ==
    {EntryCompare, EntryType, EntryNoBlanks, EntryNone, EntryList, EntryPathOrder, EntryNumber}

\* The filter maps of at most two entries (a dict keeps the order of insertion)
FilterMaps ==
    {<<>>} \cup {<<e>> : e \in FilterEntries}
        \cup {m \in FilterEntries \X FilterEntries : m[1].key # m[2].key}

\* The lists of required tags: none, #bt, #bt and #qx
SampleTagLists == {<<>>, <<<<"#", "b", "t">>>>, <<<<"#", "b", "t">>, <<"#", "q", "x">>>>}

\* searcher.py:140-145 alone: the three builders on one pair of arguments
BuildFilters ==
    /\ applied.fn = "build_filters"
    /\ applied.out.status = "pending"
    /\ applied' = [applied EXCEPT !.out =
            [status |-> "returned",
             tag_filter |-> build_tag_filter(applied.args[1]),
             conditions |-> metadata_conditions(applied.args[2]),
             meta_filter |-> build_metadata_filter(applied.args[2]),
             combined_filter |-> combined_filter(applied.args[1], applied.args[2])]]
    /\ UNCHANGED <<roots, serial, knowledges, call, agg, clock, disk, tracking, store, task, lastPass>>

InitBuildFilters ==
    /\ roots = {}
    /\ serial = TRUE
    /\ disk = [r \in RootPaths |-> NoFiles]
    /\ InitIdle
    /\ applied \in {Pending("build_filters", x) : x \in SampleTagLists \X FilterMaps}

NextBuildFilters == BuildFilters

SpecBuildFilters == InitBuildFilters /\ [][NextBuildFilters]_vars

\* search_documents is called for one directory with tags and metadata filters
SearchFiltered(dir, q, limit, threshold, tags, filters) ==
    /\ dir \in roots
    /\ Quiet
    /\ ~InFlight(RefreshTask)
    /\ serial => NoneInFlight
    /\ SearchBegin(dir, q, limit, threshold, tags, filters)
    /\ UNCHANGED <<applied, roots, serial, knowledges, agg, clock, disk, tracking, store, lastPass>>

\* The metadata filters of the searches
SearchFilterMaps == {<<>>, <<EntryCompare>>, <<EntryType>>, <<EntryPathOrder>>, <<EntryNoBlanks>>}

\* One root holding a markdown file with tags and perhaps a Python file,
\* which may be one the process cannot read; nothing is indexed yet
InitFiltered ==
    /\ roots = {RootA}
    /\ serial = TRUE
    /\ knowledges = <<>>
    /\ disk \in {[r \in RootPaths |->
                    IF r = RootA
                    THEN [n \in FileNames |-> IF n = <<"a", "md">> THEN OnDisk(c) ELSE py]
                    ELSE NoFiles] :
                 c \in TaggedContents,
                 py \in {NoFile, OnDisk(CHOOSE x \in Contents : x.id = "long"),
                         OnDisk(DeniedContent)}}
    /\ Init0

\* Searches with filters, each with its auto-refresh pass
NextFiltered ==
    \/ \E tags \in SampleTagLists, filters \in SearchFilterMaps :
            SearchFiltered(RootA, "q1", 2, 0, tags, filters)
    \/ SearchQuery
    \/ IncrementalStep(RefreshTask)

SpecFiltered == InitFiltered /\ [][NextFiltered]_vars

(* --------------------------- a dropped index --------------------------- *)
\* What a successful pass over the files of dir leaves in the store and in
\* the tracking file
IndexedStore(dir, files) ==
    [exists |-> TRUE,
     ents |-> [e \in UNION {EntitiesFrom(FilePath(dir, n), files[n].content) :
                                n \in {m \in FileNames : files[m].present}} |-> 1]]

IndexedTracking(dir, files, now) ==
    [exists |-> TRUE, text |-> "record", last_checked |-> now,
     files |-> [p \in {FilePath(dir, n) : n \in {m \in FileNames : files[m].present}} |->
                    <<md5(files[p.name].content), files[p.name].mtime>>]]

\* One root with a markdown file and perhaps a Python file, indexed by a
\* pass that has just succeeded
InitDrop ==
    /\ roots = {RootA}
    /\ knowledges = <<>>
    /\ serial = TRUE
    /\ clock = 1
    /\ disk \in {[r \in RootPaths |-> IF r = RootA THEN fs ELSE NoFiles] :
            fs \in {f \in InitialFiles : f[<<"a", "md">>] # NoFile /\ f[<<"a", "md">>].content.id = "long"}}
    /\ store = [cd \in CacheDirs |->
                    IF cd = get_cache_directory(RootA)
                    THEN IndexedStore(RootA, disk[RootA]) ELSE NoCollection]
    /\ tracking = [cd \in CacheDirs |->
                    IF cd = get_cache_directory(RootA)
                    THEN IndexedTracking(RootA, disk[RootA], clock) ELSE NoTracking]
    /\ task = [t \in Tasks |-> IdleTask]
    /\ lastPass = [r \in RootPaths |->
                    IF r = RootA
                    THEN [ran |-> TRUE, status |-> "success", dirty |-> {}, clean |-> TRUE]
                    ELSE NotRun]
    /\ call = IdleCall
    /\ agg = IdleAgg
    /\ applied = NothingApplied

\* The index is dropped, searched and indexed incrementally, one call at a
\* time; the files do not change
NextDrop ==
    \/ drop_index(RootA)
    \/ \E i \in SearchInputs : SearchStart(RootA, i.query, i.limit, i.threshold)
    \/ SearchQuery
    \/ Quiet /\ IndexStart(1, RootA, FALSE)
    \/ \E t \in Tasks : IncrementalStep(t)

SpecDrop == InitDrop /\ [][NextDrop]_vars


(* ------------------------- notions the claims use ---------------------- *)
\* The pass of t has returned and nothing has happened since.
JustReturned(t) ==
    /\ task[t].pc = "done"
    /\ lastPass[task[t].dir].ran
    /\ lastPass[task[t].dir].dirty = {}

Succeeded(t) == JustReturned(t) /\ task[t].result.status = "success"

\* The pass of t is between its first step and its return.
Running(t) == InFlight(t)

ContentOfHash(h) == CHOOSE c \in AllContents : md5(c) = h

\* The stored entities of path p, with their multiplicities
StoredOf(ents, p) == [e \in {x \in DOMAIN ents : x.path = p} |-> ents[e]]

Once(S) == [e \in S |-> 1]

\* Positions of the log of t that hold operation name
LogAt(t, name) == {i \in 1..Len(task[t].log) : task[t].log[i].op = name}

\* Operations of the pass that write to the vector store
StoreWrites(t) == LogAt(t, "drop") \cup LogAt(t, "create") \cup LogAt(t, "delete") \cup LogAt(t, "insert")

EmbedCalls(t) == LogAt(t, "embed") \cup LogAt(t, "embed_failed")

\* A file that was on disk and tracked with its current fingerprint and
\* mtime when the pass of t started (the disk does not change during a pass)
UnchangedAtStart(t, p) ==
    /\ disk[p.root][p.name].present
    /\ p \in DOMAIN task[t].preTracking.files
    /\ task[t].preTracking.files[p] = get_file_hash_and_mtime(p)

\* A file that the tracking record held when the pass of t started and that
\* is no longer on disk
RemovedTracked(t, p) ==
    /\ p \in DOMAIN task[t].preTracking.files
    /\ ~disk[p.root][p.name].present

\* What a successful pass over candidates that gave no chunk returns
NoChunkResult(t) ==
    IF LoadDocuments(task[t].files) = <<>>
    THEN Result("success", "No documents to index", 0, 0)
    ELSE Result("success", "No content to index (all chunks empty)",
                Cardinality(task[t].files), 0)

\* The entities the pass of t built from its chunks and vectors
DataOf(t) ==
    {build_entity(task[t].chunks[k], task[t].vectors[k]) : k \in 1..Len(task[t].chunks)}

(* -------------------------------- C1 ----------------------------------- *)
\* C1: after successful passes interleaved with creations and modifications
\* only, every tracked path has in the store exactly the entities of the
\* content whose fingerprint the tracking record holds, once each.
C1_TrackedMatchesStore ==
    \A dir \in roots :
        (NoneInFlight /\ lastPass[dir].clean) =>
            \A p \in DOMAIN tracking[get_cache_directory(dir)].files :
                StoredOf(store[get_cache_directory(dir)].ents, p)
                    = Once(EntitiesFrom(p, ContentOfHash(
                            tracking[get_cache_directory(dir)].files[p][1])))

(* -------------------------------- C2 ----------------------------------- *)
\* C2: an incremental pass that follows a successful pass with no filesystem
\* change in between returns "Already up to date" with zero counts and has
\* made no embedding call and no store write.
C2_SecondRunIsNoOp ==
    \A t \in Tasks :
        (task[t].pc = "done" /\ ~task[t].force /\ task[t].quiet) =>
            /\ task[t].result = Result("success", "Already up to date", 0, 0)
            /\ EmbedCalls(t) = {}
            /\ StoreWrites(t) = {}

(* -------------------------------- C3 ----------------------------------- *)
\* C3: after a successful pass, get_changed_files holds exactly the files on
\* disk that were written since that pass.
C3_ChangedIffWritten ==
    \A dir \in roots :
        (NoneInFlight /\ lastPass[dir].ran /\ lastPass[dir].status = "success") =>
            \A p \in list_knowledge_files(dir) :
                (p \in get_changed_files(dir)) <=> (p.name \in lastPass[dir].dirty)

(* -------------------------------- C4 ----------------------------------- *)
\* The parts of C4 that do not depend on how the pass ends: in an incremental
\* pass a delete naming every changed file precedes the insert, and a file
\* that was unchanged at the start is not deleted, not chunked, and keeps its
\* stored entities.
C4_DeleteBeforeInsert(t) ==
    \A i \in LogAt(t, "insert") :
        \E j \in LogAt(t, "delete") : j < i /\ task[t].log[j].paths = task[t].files

C4_UnchangedUntouched(t) ==
    \A n \in FileNames :
        LET p == FilePath(task[t].dir, n)
        IN  UnchangedAtStart(t, p) =>
                /\ \A j \in LogAt(t, "delete") : p \notin task[t].log[j].paths
                /\ \A k \in 1..Len(task[t].chunks) : task[t].chunks[k].path # p
                /\ StoredOf(store[get_cache_directory(task[t].dir)].ents, p)
                        = StoredOf(task[t].preStore.ents, p)

C4_Common(t) ==
    /\ (Running(t) \/ JustReturned(t)) => C4_DeleteBeforeInsert(t)
    /\ (Running(t) /\ task[t].pc # "check") => C4_UnchangedUntouched(t)

\* C4 as claimed: ... and every successful pass with a non-empty changed set
\* reports "Incremental update" and the number of changed files.
C4_AsClaimed ==
    \A t \in Tasks :
        (~task[t].force /\ task[t].files # {}) =>
            /\ C4_Common(t)
            /\ Succeeded(t) =>
                    /\ task[t].result.message = "Incremental update"
                    /\ task[t].result.processed_files = Cardinality(task[t].files)

\* C4, amended: a successful pass that produced chunks reports "Incremental
\* update" and the number of changed files; one that produced none reports
\* "No documents to index" or "No content to index (all chunks empty)".
C4_IncrementalPass ==
    \A t \in Tasks :
        (~task[t].force /\ task[t].files # {}) =>
            /\ C4_Common(t)
            /\ Succeeded(t) =>
                    IF task[t].chunks # <<>>
                    THEN task[t].result = Result("success", "Incremental update",
                                Cardinality(task[t].files), Len(task[t].chunks))
                    ELSE task[t].result = NoChunkResult(t)

\* An incremental pass has succeeded over one changed file and has left an
\* unchanged file, which has entities in the store, alone.
C4_Witness ==
    \E t \in Tasks :
        /\ Succeeded(t) /\ ~task[t].force
        /\ task[t].result.message = "Incremental update"
        /\ Cardinality(task[t].files) = 1
        /\ \E p \in DOMAIN task[t].preTracking.files :
                /\ p \notin task[t].files
                /\ DOMAIN StoredOf(task[t].preStore.ents, p) # {}
                /\ disk[p.root][p.name].present


(* -------------------------------- C5 ----------------------------------- *)
\* The parts of C5 that do not depend on how the pass ends: a force pass
\* drops an existing collection and creates it anew before it inserts, and
\* its candidates are all the knowledge files on disk.
C5_DropCreateInsert(t) ==
    \A i \in LogAt(t, "insert") :
        \E k \in LogAt(t, "create") :
            /\ k < i
            /\ task[t].preStore.exists => \E j \in LogAt(t, "drop") : j < k

C5_Common(t) ==
    /\ (Running(t) \/ JustReturned(t)) => C5_DropCreateInsert(t)
    /\ task[t].pc \in {"load", "embed", "insert", "track"} =>
            task[t].files = list_knowledge_files(task[t].dir)
    /\ JustReturned(t) => task[t].files = list_knowledge_files(task[t].dir)

C5_OnlyThisPass(t) ==
    store[get_cache_directory(task[t].dir)].ents = Once(DataOf(t))

\* C5 as claimed: ... and every successful force pass reports "Full reindex"
\* and the number of recognized files, and the collection then holds only
\* what this pass inserted.
C5_AsClaimed ==
    \A t \in Tasks :
        (task[t].force /\ task[t].pc # "idle") =>
            /\ C5_Common(t)
            /\ Succeeded(t) =>
                    /\ task[t].result.message = "Full reindex"
                    /\ task[t].result.processed_files
                            = Cardinality(list_knowledge_files(task[t].dir))
                    /\ C5_OnlyThisPass(t)

\* C5, amended: a successful force pass that produced chunks reports "Full
\* reindex" and the number of recognized files; one that produced none
\* reports "No documents to index" or "No content to index (all chunks
\* empty)"; either way the collection then holds only what this pass inserted.
C5_ForcePass ==
    \A t \in Tasks :
        (task[t].force /\ task[t].pc # "idle") =>
            /\ C5_Common(t)
            /\ Succeeded(t) =>
                    /\ C5_OnlyThisPass(t)
                    /\ IF task[t].chunks # <<>>
                       THEN task[t].result = Result("success", "Full reindex",
                                Cardinality(list_knowledge_files(task[t].dir)),
                                Len(task[t].chunks))
                       ELSE task[t].result = NoChunkResult(t)

\* A force pass has succeeded over a collection that held entities and a
\* tracking record that held files.
C5_Witness ==
    \E t \in Tasks :
        /\ Succeeded(t) /\ task[t].force
        /\ task[t].result.message = "Full reindex"
        /\ DOMAIN task[t].preStore.ents # {}
        /\ DOMAIN task[t].preTracking.files # {}
        /\ LogAt(t, "drop") # {}

(* -------------------------------- C6 ----------------------------------- *)
CeilDiv(a, b) == (a + b - 1) \div b

\* C6: the tracking file is written only after every embedding batch and the
\* insert have returned; a pass whose embedding call or insert fails returns
\* "error" with the failure's message, leaves the tracking record as it was
\* before the pass, and leaves the drop or the deletes it made in effect.
C6_TrackingLast ==
    \A t \in Tasks :
        /\ \A i \in LogAt(t, "track") :
                /\ \E j \in LogAt(t, "insert") : j < i
                /\ Cardinality({j \in LogAt(t, "embed") : j < i})
                        = CeilDiv(Len(task[t].chunks), batch_size)
                /\ LogAt(t, "embed_failed") \cup LogAt(t, "insert_failed") = {}
        /\ Running(t) =>
                tracking[get_cache_directory(task[t].dir)] = task[t].preTracking
        /\ (JustReturned(t) /\ LogAt(t, "embed_failed") \cup LogAt(t, "insert_failed") # {}) =>
                /\ task[t].result.status = "error"
                /\ task[t].result.message =
                        (IF LogAt(t, "embed_failed") # {} THEN "embedding failed" ELSE "insert failed")
                /\ tracking[get_cache_directory(task[t].dir)] = task[t].preTracking
                /\ store[get_cache_directory(task[t].dir)].exists
                /\ IF task[t].force
                   THEN store[get_cache_directory(task[t].dir)].ents = EmptyMap
                   ELSE \A p \in task[t].files :
                            StoredOf(store[get_cache_directory(task[t].dir)].ents, p) = EmptyMap

\* An incremental pass has failed after it deleted stored entities of a
\* changed file.
C6_Witness ==
    \E t \in Tasks :
        /\ JustReturned(t) /\ task[t].result.status = "error" /\ ~task[t].force
        /\ \E p \in task[t].files : DOMAIN StoredOf(task[t].preStore.ents, p) # {}
        /\ task[t].preTracking.exists

(* -------------------------------- C7 ----------------------------------- *)
\* C7: a pass that returns "success" has set last_checked to the current
\* time and has recorded the fingerprint and mtime of every file it reports
\* as processed.
C7_SuccessUpdatesTracking ==
    \A t \in Tasks :
        Succeeded(t) =>
            /\ tracking[get_cache_directory(task[t].dir)].exists
            /\ tracking[get_cache_directory(task[t].dir)].last_checked = clock
            /\ task[t].result.processed_files > 0 =>
                \A p \in task[t].files :
                    /\ p \in DOMAIN tracking[get_cache_directory(task[t].dir)].files
                    /\ tracking[get_cache_directory(task[t].dir)].files[p]
                            = get_file_hash_and_mtime(p)

(* -------------------------------- C8 ----------------------------------- *)
C8_NotChangedStillTracked(t, p) ==
    /\ p \notin get_changed_files(task[t].dir)
    /\ p \notin task[t].files
    /\ p \in DOMAIN tracking[get_cache_directory(task[t].dir)].files
    /\ tracking[get_cache_directory(task[t].dir)].files[p] = task[t].preTracking.files[p]

C8_EntitiesKept(t, p) ==
    StoredOf(store[get_cache_directory(task[t].dir)].ents, p)
        = StoredOf(task[t].preStore.ents, p)

C9_NoDoubleInsert ==
    \A cd \in CacheDirs : \A e \in DOMAIN store[cd].ents : store[cd].ents[e] = 1

(* -------------------------------- C10 ---------------------------------- *)
\* The stored entities of the files under dir, and its tracking record
EntitiesUnder(st, dir) ==
    LET ents == st[get_cache_directory(dir)].ents
    IN  [e \in {x \in DOMAIN ents : x.path.root = dir} |-> ents[e]]

TrackingOf(tr, dir) == tr[get_cache_directory(dir)]

\* C10: two distinct roots share no collection and no tracking file, so no
\* step of a pass over one root changes the tracking record or the stored
\* entities of another.
C10_PassLeavesOtherRoots ==
    [][\A t \in Tasks : \A other \in roots :
            (InFlight(t) /\ task'[t] # task[t] /\ other # task[t].dir) =>
                /\ TrackingOf(tracking', other) = TrackingOf(tracking, other)
                /\ EntitiesUnder(store', other) = EntitiesUnder(store, other)]_vars

(* ---------------------- notions of the search claims ------------------- *)
\* A search_documents call has returned
SearchDone == call.op = "search_documents" /\ call.pc = "done"

\* The pass that the returned search awaited, if it awaited one
RefreshLog(name) == IF call.refreshed THEN LogAt(RefreshTask, name) ELSE {}

\* The score of a hit before it is rounded
RawScore(hit) == One - hit.distance

\* The hits of the returned search that pass its threshold, in their order
KeptHits == SelectSeq(call.hits, LAMBDA h : RawScore(h) >= call.threshold)

(* -------------------------------- C11 ---------------------------------- *)
\* C11: a search of a directory whose collection existed when the search
\* began, run while passes of another process over the directory are in
\* flight, returns "success" unless the embedding function or the store
\* fails: never "Directory not indexed".
C11_SearchDuringPass ==
    (SearchDone /\ call.indexed /\ call.failed = {}) => call.result.status = "success"

(* -------------------------------- C12 ---------------------------------- *)
\* C12: whatever the tracking file holds, load_tracking_file does not raise,
\* and no pass ends in error because of the tracking file.
C12_CorruptTrackingResets ==
    /\ \A dir \in roots : ~load_tracking_file_raises(dir)
    /\ \A t \in Tasks :
            task[t].pc = "done" => task[t].result # Result("error", "TypeError", 0, 0)

(* -------------------------------- C13 ---------------------------------- *)
\* C13: after a crash inside save_tracking_file the tracking file holds the
\* complete previous record or the complete new one: it is never empty or
\* cut short.
C13_SaveIsAtomic ==
    \A cd \in CacheDirs : tracking[cd].text # "truncated"

(* -------------------------------- C14 ---------------------------------- *)
\* The failures of a pass that its handlers do not take up on the spot
PassFailures(t) ==
    LogAt(t, "embed_failed") \cup LogAt(t, "insert_failed") \cup LogAt(t, "track_failed")

\* The message of the failure that ended the call
FailureText(f) ==
    CASE f = "encode_queries" -> "embedding failed"
      [] f = "search" -> "search failed"
      [] f = "query" -> "query failed"
      [] f = "drop_collection" -> "drop failed"
      [] f = "load_tracking_file" -> "TypeError"
      [] OTHER -> "none"

\* No operation raises: each returns "success" or "error"
C14_NoRaise ==
    /\ call.pc = "done" => call.result.status \in {"success", "error"}
    /\ \A t \in Tasks : task[t].pc = "done" => task[t].result.status \in {"success", "error"}
    /\ \A t \in Tasks : (task[t].pc = "done" /\ PassFailures(t) # {}) =>
            /\ task[t].result.status = "error"
            /\ task[t].result.message \in {"embedding failed", "insert failed", "TypeError"}

C15_DeniedBeforeIO ==
    /\ (call.pc = "done" /\ ~validate_path(call.dir)) =>
            /\ call.result = Answer("error", "Permission denied", <<>>)
            /\ ~call.touched
    /\ \A t \in Tasks : (task[t].pc = "done" /\ ~validate_path(task[t].dir)) =>
            /\ task[t].result = Result("error", "Permission denied", 0, 0)
            /\ task[t].log = <<>>

(* -------------------------------- C16 ---------------------------------- *)
\* C16: a search of an allowed directory that had no collection when the
\* search began returns the "Directory not indexed" error, and has not
\* created the collection, called the embedding function or written the
\* tracking record.
C16_NotIndexed ==
    (SearchDone /\ validate_path(call.dir) /\ ~call.indexed) =>
        /\ call.result = Answer("error", "Directory not indexed", <<>>)
        /\ ~call.embedded
        /\ RefreshLog("create") \cup RefreshLog("embed") \cup RefreshLog("track") = {}

(* -------------------------------- C17 ---------------------------------- *)
\* C17: no search that an aggregate search makes starts an index pass.
C17_AggregateNoRefresh ==
    /\ agg.refreshed = {}
    /\ (agg.pc = "run" /\ agg.waiting) => ~call.refreshed

(* -------------------------------- C18 ---------------------------------- *)
\* The results one path of the registry gives the returned aggregate search:
\* none when its search failed, else the items of its nearest hits that pass
\* the threshold, tagged with the knowledge base
PathResults(kp) ==
    IF kp.path \in agg.failed THEN <<>>
    ELSE Tagged(parse_results(client_search(kp.path, agg.query, agg.limit, <<>>), agg.threshold),
                kp.name)

RECURSIVE UnionResults(_)
UnionResults(kps) ==
    IF kps = <<>> THEN <<>> ELSE PathResults(kps[1]) \o UnionResults(Tail(kps))

Count(s, x) == Cardinality({i \in 1..Len(s) : s[i] = x})

Items(s) == {s[i] : i \in 1..Len(s)}

\* C18: an aggregate search over a registry that is not empty returns
\* "success"; its results are, in descending order of score, the `limit`
\* highest-scoring of the results of all paths, each tagged with the name of
\* its knowledge base; a path whose search failed gives none.
C18_AggregateTopK ==
    (agg.pc = "done" /\ knowledges # <<>>) =>
        LET U == UnionResults(KbPaths(knowledges))
            R == agg.result.results
        IN  /\ agg.result.status = "success"
            /\ Len(R) = Min(agg.limit, Len(U))
            /\ \A i \in 1..Len(R) - 1 : R[i].score >= R[i + 1].score
            /\ \A x \in Items(R) : Count(R, x) <= Count(U, x)
            /\ \A x \in Items(U) : Count(R, x) < Count(U, x) =>
                    \A i \in 1..Len(R) : R[i].score >= x.score
            /\ \A i \in 1..Len(R) : \E k \in 1..Len(knowledges) :
                    /\ knowledges[k].name = R[i].knowledge_base
                    /\ R[i].path.root \in Items(knowledges[k].paths)

\* An aggregate search has returned fewer results than the paths gave, and
\* the first of them is not the first that was collected.
C18_Witness ==
    /\ agg.pc = "done"
    /\ agg.result.status = "success"
    /\ Len(agg.result.results) = agg.limit
    /\ Len(agg.all_results) > agg.limit
    /\ agg.result.results[1] # agg.all_results[1]

(* -------------------------------- C19 ---------------------------------- *)
\* What C19 says of which hits are kept: the results of a successful search
\* are its hits whose score is not below the threshold, in order.
C19_KeptIffNotBelow ==
    (SearchDone /\ call.result.status = "success") =>
        /\ Len(call.result.results) = Len(KeptHits)
        /\ \A i \in 1..Len(KeptHits) :
                /\ call.result.results[i].path = KeptHits[i].entity.path
                /\ call.result.results[i].text = KeptHits[i].entity.text
                /\ call.result.results[i].score = round4(RawScore(KeptHits[i]))

C19_WitnessBelow ==
    /\ SearchDone /\ call.result.status = "success"
    /\ \E i \in 1..Len(call.hits) : RawScore(call.hits[i]) = call.threshold - 1
    /\ Len(call.result.results) < Len(call.hits)

(* -------------------------------- C20 ---------------------------------- *)
\* C20: every result of search_documents has a score from 0 to 1.
C20_ScoreInUnitInterval ==
    SearchDone =>
        \A i \in 1..Len(call.result.results) :
            /\ call.result.results[i].score >= 0
            /\ call.result.results[i].score <= One

(* -------------------------------- C21..C30 ----------------------------- *)
\* extract_metadata has been applied to the file of extension ext
ExtractDone(ext) ==
    /\ applied.fn = "extract_metadata"
    /\ applied.out.status # "pending"
    /\ from_extension(applied.args[1]) = ext

\* The hashtags of a text that stand outside fenced and inline code, outside
\* style blocks, outside markup tags and outside style attributes
TagsOutsideCodeAndMarkup(text) ==
    LET t1 == ReSubEmpty(text, FencedCode)
        t2 == ReSubEmpty(t1, InlineCode)
        t3 == ReSubEmpty(t2, StyleBlock)
        t4 == ReSubEmpty(t3, MarkupTag)
        t5 == ReSubEmpty(t4, StyleAttribute)
    IN  FindHashtags(t5)

(* -------------------------------- C24 ---------------------------------- *)
\* C24: extract_metadata raises for no file; when the file cannot be read or
\* parsed it returns the minimal record of the file's kind: the kind set, no
\* tag and every kind-specific field absent.
C24_NeverRaises ==
    (applied.fn = "extract_metadata" /\ applied.out.status # "pending") =>
        /\ applied.out.status = "returned"
        /\ (applied.args[2].read # "ok" /\ from_extension(applied.args[1]) # "none") =>
                applied.out.metadata = DocumentMetadata(from_extension(applied.args[1]))

(* -------------------------------- C27 ---------------------------------- *)
\* C27: the tags extracted from a markdown file are exactly the valid
\* front-matter tags (with "#" put in front when missing) and the valid
\* hashtags of the body that stand outside code spans, markup tags and style
\* declarations, without duplicates and sorted.
C27_TagsAsClaimed ==
    (ExtractDone("md") /\ applied.out.status = "returned" /\ applied.args[2].read = "ok") =>
        LET f == applied.args[2]
            inline == {t \in TagsOutsideCodeAndMarkup(f.body) : is_valid_tag(t)}
        IN  applied.out.metadata.tags =
                SortStrings(filtered_fm_tags(fm_tags_list(f.front.tags)) \cup inline)

(* -------------------------------- C21 ---------------------------------- *)
\* The tag set of the document a result item comes from
TagsOfResult(item) ==
    LET tags == file_metadata(item.path.name, ContentById(item.text.of)).tags
    IN  {tags[i] : i \in 1..Len(tags)}

\* C21: every result of a search with a non-empty list of required tags
\* comes from a document whose tag set contains each of the required tags.
C21_ResultsCarryEveryTag ==
    (SearchDone /\ call.result.status = "success" /\ call.tags # <<>>) =>
        \A i \in 1..Len(call.result.results) :
            \A k \in 1..Len(call.tags) :
                call.tags[k] \in TagsOfResult(call.result.results[i])

(* -------------------------------- C22 ---------------------------------- *)
\* C22: build_metadata_filter gives one condition for each entry of the
\* filter map, the conditions joined with "and"; combine_filters gives no
\* filter exactly when the tag predicate and the metadata predicate are both
\* empty.
C22_OneConditionPerEntry ==
    (applied.fn = "build_filters" /\ applied.out.status = "returned") =>
        /\ Len(applied.out.conditions) = Len(applied.args[2])
        /\ applied.out.meta_filter = Join(AndText, applied.out.conditions)
        /\ (applied.out.combined_filter = <<>>) <=>
                (applied.out.tag_filter = <<>> /\ applied.out.meta_filter = <<>>)

(* -------------------------------- C23 ---------------------------------- *)
\* A metadata filter map with an entry that gives no condition the store
\* accepts
InvalidFilter(filters) ==
    \E i \in 1..Len(filters) :
        LET conds == metadata_conditions(<<filters[i]>>)
        IN  conds = <<>> \/ ~StoreAccepts(conds[1])

\* C23: a search whose metadata filter is invalid returns an error and has
\* sent no query to the store.
C23_InvalidFilterRejected ==
    (SearchDone /\ validate_path(call.dir) /\ call.indexed /\ InvalidFilter(call.filters)) =>
        /\ call.result.status = "error"
        /\ ~call.queried

(* -------------------------------- C25 ---------------------------------- *)
\* extract_metadata raises for the file at p
ExtractionFails(p) ==
    extract_metadata(p.name[2], FileView(p.name, disk[p.root][p.name].content)).status = "raised"

\* The entities stored for p carry these tags, this type and this sharpe
StoredWith(p, md) ==
    \A e \in DOMAIN StoredOf(store[get_cache_directory(p.root)].ents, p) :
        /\ e.tags_str = json_dumps(md.tags)
        /\ e.type_field = md.type_field
        /\ e.sharpe = md.sharpe

\* C25: a pass with a candidate file whose extraction fails, and in which
\* neither the embedding, the insert nor the tracking update failed, returns
\* 'success'; the chunks of the failing file are stored with empty metadata
\* and those of every other candidate with the metadata of their file.
C25_BadFileDoesNotAbort ==
    \A t \in Tasks :
        (/\ task[t].pc = "done"
         /\ PassFailures(t) = {}
         /\ \E p \in task[t].files : ExtractionFails(p)) =>
            /\ task[t].result.status = "success"
            /\ \A p \in task[t].files :
                    /\ StoredOf(store[get_cache_directory(p.root)].ents, p)
                            = Once(EntitiesFrom(p, disk[p.root][p.name].content))
                    /\ IF ExtractionFails(p)
                       THEN StoredWith(p, DocumentMetadata("none"))
                       ELSE StoredWith(p, extract_metadata(p.name[2],
                                FileView(p.name, disk[p.root][p.name].content)).metadata)

(* -------------------------------- C26 ---------------------------------- *)
\* The chunks the splitter cuts the loaded documents of the pass of t into
SplitChunks(t) == ChunkAll(LoadDocuments(task[t].files))

\* The pass of t had candidates, and none of their chunks reaches the
\* minimum length
NoChunkFromCandidates(t) ==
    /\ task[t].force \/ task[t].files # {}
    /\ \A k \in 1..Len(SplitChunks(t)) : SplitChunks(t)[k].text.len < MinChunkChars

\* C26: a pass whose candidates yield no chunk returns 'success' with
\* total_chunks 0 and a message other than 'Already up to date', and makes
\* no embedding call and no insert.
C26_NoChunkPass ==
    \A t \in Tasks :
        (JustReturned(t) /\ NoChunkFromCandidates(t)) =>
            /\ task[t].result.status = "success"
            /\ task[t].result.total_chunks = 0
            /\ task[t].result.message # "Already up to date"
            /\ EmbedCalls(t) = {}
            /\ LogAt(t, "insert") = {}

\* A pass has returned over a changed file whose only chunk is too short
C26_Witness ==
    \E t \in Tasks :
        /\ JustReturned(t) /\ NoChunkFromCandidates(t)
        /\ task[t].files # {}
        /\ SplitChunks(t) # <<>>
        /\ task[t].result.message = "No content to index (all chunks empty)"

(* -------------------------------- C28 ---------------------------------- *)
\* The chunks of the pass of t whose stripped text has 50 characters or more
LongEnough(t) == SelectSeq(SplitChunks(t), LAMBDA ch : ch.text.len >= MinChunkChars)

\* C28: the chunks a pass hands to the embedding are exactly the split
\* chunks whose stripped text has at least 50 characters; no text shorter
\* than that is ever embedded or stored, and a pass that succeeds has stored
\* every chunk of 50 characters or more.
C28_KeptIffFifty ==
    /\ \A t \in Tasks :
            /\ \A k \in 1..Len(task[t].chunks) : task[t].chunks[k].text.len >= MinChunkChars
            /\ (task[t].pc \in {"embed", "insert", "track"}
                    \/ (JustReturned(t) /\ task[t].chunks # <<>>)) =>
                        task[t].chunks = LongEnough(t)
            /\ (Succeeded(t) /\ task[t].chunks # <<>>) =>
                    \A k \in 1..Len(LongEnough(t)) :
                        build_entity(LongEnough(t)[k], encode_document(LongEnough(t)[k].text))
                            \in DOMAIN store[get_cache_directory(task[t].dir)].ents
    /\ \A cd \in DOMAIN store : \A e \in DOMAIN store[cd].ents :
            e.text.len >= MinChunkChars

\* A pass has succeeded over a file with a chunk of 50 characters and a file
\* whose chunk has 49: the first is stored and the second is not
C28_Witness ==
    \E t \in Tasks :
        /\ Succeeded(t)
        /\ \E k \in 1..Len(SplitChunks(t)) :
                /\ SplitChunks(t)[k].text.len = MinChunkChars
                /\ build_entity(SplitChunks(t)[k], encode_document(SplitChunks(t)[k].text))
                        \in DOMAIN store[get_cache_directory(task[t].dir)].ents
        /\ \E k \in 1..Len(SplitChunks(t)) :
                /\ SplitChunks(t)[k].text.len = MinChunkChars - 1
                /\ \A e \in DOMAIN store[get_cache_directory(task[t].dir)].ents :
                        e.text # SplitChunks(t)[k].text

(* -------------------------------- C29 ---------------------------------- *)
\* The pass of t removed stored entities of p
EntitiesRemoved(t, p) ==
    /\ StoredOf(task[t].preStore.ents, p) # EmptyMap
    /\ StoredOf(store[get_cache_directory(task[t].dir)].ents, p) = EmptyMap

\* C29: when a pass has returned an error after removing the stored
\* entities of a file that is on disk and tracked, and nothing has changed
\* since, change detection reports the file, so that the next incremental
\* pass indexes it again.
C29_RemovedAreChangedAgain ==
    \A t \in Tasks : \A n \in FileNames :
        LET p == FilePath(task[t].dir, n)
        IN  (/\ JustReturned(t)
             /\ task[t].result.status = "error"
             /\ disk[p.root][p.name].present
             /\ p \in DOMAIN tracking[get_cache_directory(task[t].dir)].files
             /\ EntitiesRemoved(t, p)) =>
                p \in get_changed_files(task[t].dir)

(* -------------------------------- C30 ---------------------------------- *)
\* drop_index on dir has returned success and no call or pass has begun on
\* dir since
JustDropped(dir) ==
    /\ call.op = "drop_index" /\ call.dir = dir /\ call.pc = "done"
    /\ call.result.status = "success"
    /\ NoneInFlight /\ ~lastPass[dir].ran

\* The pass of t began on a root with no collection and no tracking record
BeganOnDropped(t) ==
    /\ task[t].pc \notin {"idle", "check"}
    /\ ~task[t].preStore.exists
    /\ ~task[t].preTracking.exists

\* C30, its first half: right after drop_index has returned success the root
\* has no collection, load_tracking_file gives last_checked 0 and no files,
\* and an incremental pass that begins there takes every recognized file of
\* the root as a candidate.
C30_DroppedIsEmpty ==
    /\ \A dir \in roots :
            JustDropped(dir) =>
                /\ ~has_collection(dir)
                /\ load_tracking_file(dir) = [last_checked |-> 0, files |-> EmptyMap]
                /\ get_changed_files(dir) = list_knowledge_files(dir)
    /\ \A t \in Tasks :
            BeganOnDropped(t) => task[t].files = list_knowledge_files(task[t].dir)

\* C30: ... and a search that begins on the dropped root reports it as not
\* indexed.
C30_AfterDrop ==
    /\ C30_DroppedIsEmpty
    /\ (SearchDone /\ ~call.indexed) =>
            call.result = Answer("error", "Directory not indexed", <<>>)

====
